---- MODULE Spec2Model ----
(***************************************************************************)
(* A model of rclamp's filesystem core: the versioned-filename codec       *)
(* (workfiles.rs), version_up / create_file on a task's work directory,    *)
(* and the task-tree walk (tasks.rs).                                      *)
(*                                                                         *)
(* A string is a sequence of characters, a character a one-token string.   *)
(* "oe" stands for a two-byte UTF-8 character (such as o-umlaut): Rust's   *)
(* String::len and String::drain count bytes, chars().nth counts           *)
(* characters, and the two differ exactly on such characters.              *)
(***************************************************************************)
EXTENDS Integers, Sequences, FiniteSets, TLC

VARIABLES
    cstage,     \* codec: "file" (a File to encode), "path" (a path to decode), "done"
    cself,      \* codec: the File fields make_filename_from_self is applied to
    cpath,      \* codec: the file name from_path is applied to
    cresult,    \* codec: what from_path returned
    workdir,    \* the current task's primary work directory on disk
    template,   \* bytes of the selected Dcc's template file on disk, 0 when it is missing
    project,    \* current_project.name_sanitized
    task,       \* the selected task's directory name (TaskTreeNode::name)
    current_task, \* Rclamp::current_task is Some
    files,      \* Rclamp::files
    crashed,    \* the process panicked
    last,       \* the last command: what it was applied to and what it returned
    disk,       \* the project's work tree on disk: path -> entry
    enum_desc,  \* the order in which read_dir enumerates (descending names or ascending)
    current_project, \* Rclamp::current_project is Some
    tree,       \* Rclamp::current_project_task_tree
    tlast,      \* the last task-tree command and the outcome of its from_path
    sname,      \* sanitizer: the display name typed
    sresult,    \* sanitizer: what sanitize_string returned
    sstage,     \* sanitizer: "name", "once" (sanitized), "twice" (sanitized again)
    proot,      \* the projects directory on disk
    projects,   \* Rclamp::projects
    project_filter,    \* Rclamp::project_filter
    projects_filtered, \* Rclamp::projects_filtered
    plast,      \* the last project command and the outcome of its find_projects
    rdir,       \* race: the work directory two invocations copy into
    rpc,        \* race: where each invocation stands
    rres,       \* race: what each invocation returned
    templates,  \* the templates directory on disk
    dccs,       \* Rclamp::dcc
    opened,     \* the Project in Rclamp::current_project
    alast,      \* the last application command and the outcome of each scan it ran
    tree_project,  \* the project directory in current_project_task_tree's path
    task_project,  \* the project directory in current_task's path
    show_create_project, \* Rclamp::show_create_project
    show_create_task,    \* Rclamp::show_create_task
    show_create_folder,  \* Rclamp::show_create_folder
    new_project_name,    \* Rclamp::new_project_name
    new_task_name,       \* Rclamp::new_task_name
    new_folder_name,     \* Rclamp::new_folder_name
    new_task_parent,     \* Rclamp::new_task_parent, by its path in the tree
    new_folder_parent,   \* Rclamp::new_folder_parent, by its path in the tree
    message,             \* Rclamp::message is Some
    clients_file,        \* the clients file on disk
    clast                \* the last client command and what it returned

codecVars == <<cstage, cself, cpath, cresult>>

sanVars == <<sname, sresult, sstage>>

projVars == <<proot, projects, project_filter, projects_filtered, plast>>

raceVars == <<rdir, rpc, rres>>

appVars == <<templates, dccs, opened, alast>>

selVars == <<tree_project, task_project>>

dialogVars == <<show_create_project, show_create_task, show_create_folder,
                new_project_name, new_task_name, new_folder_name,
                new_task_parent, new_folder_parent, message>>

clientVars == <<clients_file, clast>>

restVars == <<sanVars, projVars, raceVars, appVars, selVars, dialogVars, clientVars>>

fileVars == <<workdir, template, project, task, current_task, files, crashed, last>>

treeVars == <<disk, enum_desc, current_project, tree, tlast>>

vars == <<codecVars, fileVars, treeVars, restVars>>

----------------------------------------------------------------------------
(* Bounds *)

MaxNameLen == 1
MaxExtLen == 1
MaxRawLen == 5

(* The largest version the three-digit format v{:03} writes in three digits. *)
MaxContractVersion == 999

----------------------------------------------------------------------------
(* Strings *)

Digits == <<"0", "1", "2", "3", "4", "5", "6", "7", "8", "9">>

DigitSet == {Digits[i] : i \in 1..10}

DigitVal(c) == (CHOOSE i \in 1..10 : Digits[i] = c) - 1

(* UTF-8 width of a character in bytes. *)
Width(c) == IF c = "oe" THEN 2 ELSE 1

RECURSIVE ByteLen(_)
ByteLen(s) == IF s = <<>> THEN 0 ELSE Width(Head(s)) + ByteLen(Tail(s))

(* Strings over alphabet S of at most n characters. *)
StrUpTo(S, n) == UNION {[1..k -> S] : k \in 0..n}

(* s.is_char_boundary(b): byte offset b falls between two characters. *)
IsCharBoundary(s, b) == \E k \in 0..Len(s) : ByteLen(SubSeq(s, 1, k)) = b

(* The number of characters in the first b bytes of s (b a char boundary). *)
CharsIn(s, b) == CHOOSE k \in 0..Len(s) : ByteLen(SubSeq(s, 1, k)) = b

(* s.chars().nth(i).unwrap_or(d), i counted from 0. *)
NthOr(s, i, d) == IF i + 1 <= Len(s) THEN s[i + 1] ELSE d

RECURSIVE DecimalValue(_)
DecimalValue(s) ==
    IF s = <<>> THEN 0
    ELSE 10 * DecimalValue(SubSeq(s, 1, Len(s) - 1)) + DigitVal(s[Len(s)])

parse_u32_or_default(s, d) == d

(* str::parse::<u32>().unwrap_or(d): an optional leading '+', then one or  *)
(* more ASCII digits; anything else (empty, a sign alone, a non-digit) is   *)
(* an error and yields d. At most three characters reach it, so the value   *)
(* never overflows u32.                                                     *)
parse_u32_or(s, d) ==
    LET body == IF s # <<>> /\ s[1] = "+" THEN Tail(s) ELSE s
    IN  IF body # <<>> /\ \A i \in 1..Len(body) : body[i] \in DigitSet
        THEN DecimalValue(body)
        ELSE d

RECURSIVE Decimal(_)
Decimal(n) ==
    IF n < 10 THEN <<Digits[n + 1]>>
    ELSE Decimal(n \div 10) \o <<Digits[(n % 10) + 1]>>

RECURSIVE ZeroPad(_, _)
ZeroPad(s, w) == IF Len(s) >= w THEN s ELSE ZeroPad(<<"0">> \o s, w)

----------------------------------------------------------------------------
(* std::path::Path::file_stem / extension on a file name (no separators):  *)
(* split at the last '.', unless the name is ".." or the part before the   *)
(* last '.' is empty, in which case the whole name is the stem and there   *)
(* is no extension.                                                        *)

LastDot(f) ==
    IF \E i \in 1..Len(f) : f[i] = "."
    THEN CHOOSE i \in 1..Len(f) : f[i] = "." /\ \A j \in (i + 1)..Len(f) : f[j] # "."
    ELSE 0

HasExtension(f) == f # <<".", ".">> /\ LastDot(f) > 1

file_stem(f) == IF HasExtension(f) THEN SubSeq(f, 1, LastDot(f) - 1) ELSE f

(* path.extension().unwrap_or("") *)
extension_or_empty(f) ==
    IF HasExtension(f) THEN SubSeq(f, LastDot(f) + 1, Len(f)) ELSE <<>>

----------------------------------------------------------------------------
(* workfiles.rs: File *)

NoFile == [tag |-> "none", name |-> <<>>, path |-> <<>>, extension |-> <<>>, version |-> 0]

ErrFile(t) == [NoFile EXCEPT !.tag = t]

OkFile(n, p, e, v) == [tag |-> "ok", name |-> n, path |-> p, extension |-> e, version |-> v]

fmt_version_two_digits(v) == <<"v">> \o ZeroPad(Decimal(v), 2)

(* fmt_version: format!("v{:03}", self.version) *)
fmt_version(v) == <<"v">> \o ZeroPad(Decimal(v), 3)

(* The guarded offset of from_path: name.len() - 5 when name.len() > 5,    *)
(* else 0 (lengths in bytes).                                              *)
version_offset(stem) == IF ByteLen(stem) > 5 THEN ByteLen(stem) - 5 ELSE 0

(* File::from_path on a path whose last component is f. Result tags: "ok"  *)
(* (a File), "err" (Err("Not a valid filename.")), "panic" (String::drain  *)
(* aborts when the offset is not a character boundary).                    *)
from_path(f) ==
    LET extension == extension_or_empty(f)
        stem == file_stem(f)
        off == version_offset(stem)
    IN  IF off < 0 \/ ~IsCharBoundary(stem, off)
        THEN ErrFile("panic")
        ELSE LET k == CharsIn(stem, off)
                 name == SubSeq(stem, 1, k)
                 version_string == SubSeq(stem, k + 1, Len(stem))
             IN  IF ~(NthOr(version_string, 0, "0") = "_"
                      /\ NthOr(version_string, 1, "0") = "v")
                 THEN ErrFile("err")
                 ELSE OkFile(name, f, extension,
                             parse_u32_or(SubSeq(version_string, 3, Len(version_string)), 1))

(* make_filename_from_self: format!("{}_{}.{}", name, fmt_version(), extension) *)
make_filename_from_self(self) ==
    self.name \o <<"_">> \o fmt_version(self.version) \o <<".">> \o self.extension

----------------------------------------------------------------------------
(* The codec on its own: Init draws either the fields of a File (a name,   *)
(* an extension as Path::extension yields it, hence without '.', and a     *)
(* version) or a raw file name; the actions apply make_filename_from_self  *)
(* and from_path.                                                          *)

NameAlphabet == {"a", "_", ".", "oe"}
ExtAlphabet == {"a", "oe"}
RawAlphabet == {"a", "_", "v", "1", ".", "oe"}

CodecNames == StrUpTo(NameAlphabet, MaxNameLen)
CodecExts == StrUpTo(ExtAlphabet, MaxExtLen)
CodecVersions == 0..(MaxContractVersion + 1)
RawNames == StrUpTo(RawAlphabet, MaxRawLen) \ {<<>>}

(* The part of the state a specification does not use stays as it is here. *)
FilesIdle ==
    /\ workdir = [exists |-> FALSE, entries |-> <<>>]
    /\ template = 0
    /\ project = <<>>
    /\ task = <<>>
    /\ current_task = FALSE
    /\ files = [some |-> FALSE, list |-> <<>>]
    /\ crashed = FALSE
    /\ last = [op |-> "none", res |-> "none", file |-> NoFile, dst |-> <<>>,
                name |-> <<>>, dcc |-> [name |-> "", extension |-> <<>>, found |-> FALSE]]

TreeIdle ==
    /\ disk = <<>>
    /\ enum_desc = FALSE
    /\ current_project = FALSE
    /\ tree = [some |-> FALSE, node |-> <<>>]
    /\ tlast = [op |-> "none", res |-> "none", scan |-> "none"]

SanIdle == sname = <<>> /\ sresult = <<>> /\ sstage = "idle"

ProjIdle ==
    /\ proot = [readable |-> FALSE, entries |-> <<>>]
    /\ projects = <<>>
    /\ project_filter = <<>>
    /\ projects_filtered = <<>>
    /\ plast = [op |-> "none", res |-> "none", scan |-> "none"]

RaceIdle == rdir = <<>> /\ rpc = <<>> /\ rres = <<>>

AppIdle == templates = FALSE /\ dccs = <<>> /\ opened = [name |-> <<>>, name_sanitized |-> <<>>, work_sub_dirs |-> <<>>] /\ alast = <<>>

SelIdle == tree_project = <<>> /\ task_project = <<>>

DialogIdle ==
    /\ show_create_project = FALSE /\ show_create_task = FALSE
    /\ show_create_folder = FALSE
    /\ new_project_name = <<>> /\ new_task_name = <<>> /\ new_folder_name = <<>>
    /\ new_task_parent = <<>> /\ new_folder_parent = <<>>
    /\ message = FALSE

ClientIdle == clients_file = <<>> /\ clast = <<>>

MoreIdle == SelIdle /\ DialogIdle /\ ClientIdle

RestIdle == SanIdle /\ ProjIdle /\ RaceIdle /\ AppIdle /\ MoreIdle

CodecIdle == cstage = "idle" /\ cself = NoFile /\ cpath = <<>> /\ cresult = NoFile

CodecInit ==
    /\ cresult = NoFile
    /\ \/ /\ cstage = "file"
          /\ cpath = <<>>
          /\ \E n \in CodecNames, e \in CodecExts, v \in CodecVersions :
                cself = OkFile(n, <<>>, e, v)
       \/ /\ cstage = "path"
          /\ cself = NoFile
          /\ cpath \in RawNames
    /\ FilesIdle
    /\ TreeIdle
    /\ RestIdle

Encode ==
    /\ cstage = "file"
    /\ cstage' = "path"
    /\ cpath' = make_filename_from_self(cself)
    /\ UNCHANGED <<cself, cresult, fileVars, treeVars, restVars>>

Decode ==
    /\ cstage = "path"
    /\ cstage' = "done"
    /\ cresult' = from_path(cpath)
    /\ UNCHANGED <<cself, cpath, fileVars, treeVars, restVars>>

CodecNext == Encode \/ Decode

SpecCodec == CodecInit /\ [][CodecNext]_vars

----------------------------------------------------------------------------
(* Claims about the codec (checked under SpecCodec) *)

(* A File was encoded and the encoded name decoded. *)
RoundTripDone == cstage = "done" /\ cself.tag = "ok"

(* A raw file name was decoded. *)
RawDone == cstage = "done" /\ cself.tag = "none"

ThreeDigits(v) == ZeroPad(Decimal(v), 3)

(* C1: codec round trip. For every basename (the empty one included),     *)
(* every extension and every version v in 0..999, make_filename_from_self *)
(* produces '{basename}_v{v padded to 3 digits}.{extension}', and         *)
(* from_path on that name succeeds with exactly name = basename,          *)
(* version = v, extension = extension.                                    *)
C1_RoundTrip ==
    (RoundTripDone /\ cself.version <= MaxContractVersion) =>
        /\ cpath = cself.name \o <<"_", "v">> \o ThreeDigits(cself.version)
                     \o <<".">> \o cself.extension
        /\ Len(ThreeDigits(cself.version)) = 3
        /\ cresult.tag = "ok"
        /\ cresult.name = cself.name
        /\ cresult.version = cself.version
        /\ cresult.extension = cself.extension

(* C1 witness: basename "a", version 1, extension "a" went through        *)
(* a_v001.a and came back.                                                *)
C1_Witness ==
    /\ RoundTripDone
    /\ cself.name = <<"a">> /\ cself.version = 1 /\ cself.extension = <<"a">>
    /\ cpath = <<"a", "_", "v", "0", "0", "1", ".", "a">>
    /\ cresult.tag = "ok" /\ cresult.version = 1

(* The stem's trailing 5 characters are "_v" and three decimal digits. *)
HasVersionSuffix(stem) ==
    /\ Len(stem) >= 5
    /\ stem[Len(stem) - 4] = "_"
    /\ stem[Len(stem) - 3] = "v"
    /\ \A i \in (Len(stem) - 2)..Len(stem) : stem[i] \in DigitSet

(* C2: from_path returns an error value, never a File and never a crash,  *)
(* for every file name whose stem has fewer than 5 characters and for     *)
(* every file name whose stem's trailing 5 characters are not "_v" and    *)
(* three decimal digits.                                                  *)
C2_DecodeRejects ==
    (RawDone /\ ~HasVersionSuffix(file_stem(cpath))) => cresult.tag = "err"

(* C3: for every File from_path returns, the file name of its path equals *)
(* '{name}_v{version padded to 3 digits}.{extension}' rebuilt from the    *)
(* record's own fields.                                                   *)
C3_FilenameInvariant ==
    (cstage = "done" /\ cresult.tag = "ok") =>
        cresult.path = cresult.name \o <<"_", "v">> \o ThreeDigits(cresult.version)
                         \o <<".">> \o cresult.extension

----------------------------------------------------------------------------
(* Ordering of strings and of Files (derive(PartialOrd, Ord) on File:      *)
(* fields compared in declaration order name, path, extension, version).   *)

MaxFiles == 3

(* Contents of files, as byte-string ids: what the template holds and what *)
(* other programs write.                                                   *)
TemplateBytes == 1
EnvBytes == 2

CharCode(c) ==
    CASE c = " " -> 32
      [] c = "+" -> 43
      [] c = "-" -> 45
      [] c = "." -> 46
      [] c \in DigitSet -> 48 + DigitVal(c)
      [] c = "A" -> 65
      [] c = "_" -> 95
      [] c = "a" -> 97
      [] c = "b" -> 98
      [] c = "c" -> 99
      [] c = "f" -> 102
      [] c = "k" -> 107
      [] c = "l" -> 108
      [] c = "m" -> 109
      [] c = "o" -> 111
      [] c = "s" -> 115
      [] c = "w" -> 119
      [] c = "y" -> 121
      [] c = "p" -> 112
      [] c = "t" -> 116
      [] c = "v" -> 118
      [] c = "oe" -> 246

RECURSIVE StrLess(_, _)
StrLess(a, b) ==
    IF b = <<>> THEN FALSE
    ELSE IF a = <<>> THEN TRUE
    ELSE IF Head(a) # Head(b) THEN CharCode(Head(a)) < CharCode(Head(b))
    ELSE StrLess(Tail(a), Tail(b))

FileLess(f, g) ==
    IF f.name # g.name THEN StrLess(f.name, g.name)
    ELSE IF f.path # g.path THEN StrLess(f.path, g.path)
    ELSE IF f.extension # g.extension THEN StrLess(f.extension, g.extension)
    ELSE f.version < g.version

(* files.sort() on a list of Files with pairwise distinct paths. *)
RECURSIVE SortFiles(_)
SortFiles(S) ==
    IF S = {} THEN <<>>
    ELSE LET m == CHOOSE x \in S : \A y \in S \ {x} : FileLess(x, y)
         IN  <<m>> \o SortFiles(S \ {m})

Reverse(s) == [i \in 1..Len(s) |-> s[Len(s) + 1 - i]]

----------------------------------------------------------------------------
(* helpers.rs: sanitize_string. to_lowercase, then per character: ASCII    *)
(* letters and digits kept, '_' and '-' become '_', a-ring / a-umlaut      *)
(* become 'a', o-umlaut ("oe") becomes 'o', anything else is dropped.      *)
(* "aa" stands for a-ring, "ae" for a-umlaut, "OE" for capital o-umlaut    *)
(* and "ee" for e-acute, a letter that is neither ASCII nor in the table.  *)

ToLower(c) ==
    CASE c = "A" -> "a"
      [] c = "OE" -> "oe"
      [] OTHER -> c

IsAsciiAlnum(c) ==
    c \in DigitSet \cup {"a", "b", "f", "k", "l", "m", "o", "p", "s", "t", "v", "w", "y", "A"}

RECURSIVE sanitize_string_keeping_dash(_)
sanitize_string_keeping_dash(s) ==
    IF s = <<>> THEN <<>>
    ELSE LET cc == ToLower(Head(s))
             rest == sanitize_string_keeping_dash(Tail(s))
         IN  IF IsAsciiAlnum(cc) \/ cc = "-" THEN <<cc>> \o rest
             ELSE IF cc = "_" THEN <<"_">> \o rest
             ELSE IF cc \in {"aa", "ae"} THEN <<"a">> \o rest
             ELSE IF cc = "oe" THEN <<"o">> \o rest
             ELSE rest

RECURSIVE sanitize_string(_)
sanitize_string(s) ==
    IF s = <<>> THEN <<>>
    ELSE LET cc == ToLower(Head(s))
             rest == sanitize_string(Tail(s))
         IN  IF IsAsciiAlnum(cc) THEN <<cc>> \o rest
             ELSE IF cc \in {"_", "-"} THEN <<"_">> \o rest
             ELSE IF cc \in {"aa", "ae"} THEN <<"a">> \o rest
             ELSE IF cc = "oe" THEN <<"o">> \o rest
             ELSE rest

----------------------------------------------------------------------------
(* The work directory of one task: workdir.entries maps each file name in  *)
(* it to [kind, bytes]; workdir.exists is whether the directory is there.  *)

FileEntry(b) == [kind |-> "file", bytes |-> b]
DirEntry == [kind |-> "dir", bytes |-> 0]

Exists(fs, n) == fs.exists /\ n \in DOMAIN fs.entries

(* fs with file n written with bytes b *)
WriteFile(fs, n, b) ==
    [fs EXCEPT !.entries = [x \in DOMAIN fs.entries \cup {n} |->
                               IF x = n THEN FileEntry(b) ELSE fs.entries[x]]]

RemoveEntry(fs, n) ==
    [fs EXCEPT !.entries = [x \in DOMAIN fs.entries \ {n} |-> fs.entries[x]]]

(* std::fs::copy(from, to) inside the directory: fails unless from is an   *)
(* existing file and the directory is there; creates or truncates to.      *)
CopyOk(fs, from) == Exists(fs, from) /\ fs.entries[from].kind = "file"

(* Dcc: the descriptor chosen in the create-file dialog. The default       *)
(* new_file_type has an empty extension and a template path that does not  *)
(* exist; a found Dcc has extension ".a" and the template file of the      *)
(* model's template variable.                                              *)
DefaultDcc == [name |-> "", extension |-> <<>>, found |-> FALSE]
FoundDcc == [name |-> "dcc", extension |-> <<".", "a">>, found |-> TRUE]
Dccs == {DefaultDcc, FoundDcc}

TemplateExists(dcc, tpl) == dcc.found /\ tpl # 0

(* What a command returned, the path it aimed at, the directory after it. *)
Result(r, d, fs) == [res |-> r, dst |-> d, fs |-> fs]

increase_version_number_by_two(self) == [self EXCEPT !.version = self.version + 2]

(* increase_version_number: self.version += 1 *)
increase_version_number(self) == [self EXCEPT !.version = self.version + 1]

version_up_overwriting(self, fs) ==
    LET new_path == make_filename_from_self(increase_version_number(self))
    IN  IF CopyOk(fs, self.path)
        THEN Result("ok", new_path, WriteFile(fs, new_path, fs.entries[self.path].bytes))
        ELSE Result("io", new_path, fs)

(* File::version_up: the sibling path of version + 1; Err when it exists;  *)
(* otherwise fs::copy(self.path, new_path).                                *)
version_up(self, fs) ==
    LET new_path == make_filename_from_self(increase_version_number(self))
    IN  IF Exists(fs, new_path) THEN Result("exists", new_path, fs)
        ELSE IF CopyOk(fs, self.path)
        THEN Result("ok", new_path, WriteFile(fs, new_path, fs.entries[self.path].bytes))
        ELSE Result("io", new_path, fs)

make_filename_without_name(name, t, p, dcc) ==
    p \o <<"_">> \o t \o <<"_", "v", "0", "0", "1">> \o dcc.extension

(* File::make_filename *)
make_filename(name, t, p, dcc) ==
    IF Len(name) > 0
    THEN p \o <<"_">> \o t \o <<"_">> \o name \o <<"_", "v", "0", "0", "1">> \o dcc.extension
    ELSE p \o <<"_">> \o t \o <<"_", "v", "0", "0", "1">> \o dcc.extension

copy_file_template_first(path, dcc, tpl, fs) ==
    IF ~TemplateExists(dcc, tpl) THEN Result("template", path, fs)
    ELSE IF Exists(fs, path) THEN Result("exists", path, fs)
    ELSE IF fs.exists THEN Result("ok", path, WriteFile(fs, path, tpl))
    ELSE Result("io", path, fs)

(* File::copy_file: Err when the destination exists, then Err when the     *)
(* template is missing, then fs::copy(template, path), which fails when    *)
(* the work directory is not there.                                        *)
copy_file(path, dcc, tpl, fs) ==
    IF Exists(fs, path) THEN Result("exists", path, fs)
    ELSE IF ~TemplateExists(dcc, tpl) THEN Result("template", path, fs)
    ELSE IF fs.exists THEN Result("ok", path, WriteFile(fs, path, tpl))
    ELSE Result("io", path, fs)

(* File::create_file: make_filename, make_path (the task's work path plus  *)
(* the file name), copy_file.                                              *)
create_file(name, t, p, dcc, tpl, fs) ==
    copy_file(make_filename(name, t, p, dcc), dcc, tpl, fs)

(* TaskTreeNode::find_workfiles: Err when the work directory cannot be     *)
(* read; directories skipped; every other entry decoded with from_path,    *)
(* undecodable names skipped. A panic inside from_path aborts the walk.    *)
find_workfiles(fs) ==
    LET names == {n \in DOMAIN fs.entries : fs.entries[n].kind # "dir"}
        decoded == {from_path(n) : n \in names}
    IN  IF ~fs.exists THEN [tag |-> "err", files |-> {}]
        ELSE IF \E f \in decoded : f.tag = "panic" THEN [tag |-> "panic", files |-> {}]
        ELSE [tag |-> "ok", files |-> {f \in decoded : f.tag = "ok"}]

(* config.ignore_extensions *)
ignore_extensions == {<<"b">>}

(* Rclamp::filter_files *)
filter_files(S) == {f \in S : f.extension \notin ignore_extensions}

----------------------------------------------------------------------------
(* app.rs: the commands that act on the work directory *)

(* op: the command; res: "ok" or the error; file: the File version_up was  *)
(* applied to; dst: the destination path; name, dcc: create_file's inputs. *)
Last(o, r, f, d, n, dc) ==
    [op |-> o, res |-> r, file |-> f, dst |-> d, name |-> n, dcc |-> dc]

NoCommand(o, r) == Last(o, r, NoFile, <<>>, <<>>, DefaultDcc)

(* Rclamp::set_current_task, current_project being Some: the task is set;  *)
(* a failed find_workfiles unsets it and leaves files as it was; else the  *)
(* files are filtered, sorted and reversed.                                *)
set_current_task(fs, old) ==
    LET r == find_workfiles(fs)
    IN  IF r.tag = "panic" THEN [current_task |-> TRUE, files |-> old, crashed |-> TRUE]
        ELSE IF r.tag = "err" THEN [current_task |-> FALSE, files |-> old, crashed |-> FALSE]
        ELSE [current_task |-> TRUE,
              files |-> [some |-> TRUE, list |-> Reverse(SortFiles(filter_files(r.files)))],
              crashed |-> FALSE]

(* Rclamp::refresh_files: nothing without a current task. *)
refresh_files(ct, fs, old) ==
    IF ct THEN set_current_task(fs, old)
    ELSE [current_task |-> FALSE, files |-> old, crashed |-> FALSE]

ProjectNames == {<<"p">>}
TaskNames == {<<"t">>}

(* What the user types as the new workfile's name. *)
NewFileNames == {<<>>, <<"A">>, <<" ">>}

(* Names other programs save into the work directory. *)
PanicName == <<"oe", "_", "v", "0", "1">>

EnvNames ==
    { <<"p", "_", "t", "_", "v", "0", "0", "1", ".", "a">>,
      <<"p", "_", "t", "_", "v", "0", "0", "2", ".", "a">>,
      <<"p", "_", "t", "_", "v", "0", "0", "2", ".", "b">>,
      <<"_", "v">>,
      PanicName }

EnvEntries == {FileEntry(EnvBytes), DirEntry}

Count(fs) == Cardinality(DOMAIN fs.entries)

FilesInit ==
    /\ workdir \in {[exists |-> e, entries |-> <<>>] : e \in BOOLEAN}
    /\ template \in {0, TemplateBytes}
    /\ project \in ProjectNames
    /\ task \in TaskNames
    /\ current_task = FALSE
    /\ files = [some |-> FALSE, list |-> <<>>]
    /\ crashed = FALSE
    /\ last = NoCommand("none", "none")
    /\ CodecIdle
    /\ TreeIdle
    /\ RestIdle

(* The user selects the task in the tree. *)
SetCurrentTask ==
    /\ ~crashed
    /\ LET r == set_current_task(workdir, files)
       IN  /\ current_task' = r.current_task
           /\ files' = r.files
           /\ crashed' = r.crashed
           /\ last' = NoCommand("set_current_task", IF r.current_task THEN "ok" ELSE "io")
    /\ UNCHANGED <<workdir, template, project, task, codecVars, treeVars, restVars>>

(* files_table: "New version" on row i, then refresh_files. *)
NewVersion(i) ==
    /\ ~crashed
    /\ files.some
    /\ i \in 1..Len(files.list)
    /\ LET f == files.list[i]
           v == version_up(f, workdir)
           r == refresh_files(current_task, v.fs, files)
       IN  /\ Count(v.fs) <= MaxFiles
           /\ workdir' = v.fs
           /\ current_task' = r.current_task
           /\ files' = r.files
           /\ crashed' = r.crashed
           /\ last' = Last("version_up", v.res, f, v.dst, <<>>, DefaultDcc)
    /\ UNCHANGED <<template, project, task, codecVars, treeVars, restVars>>

(* create_file_dialog: "Create" with a project and a task selected: the    *)
(* typed name is sanitized, create_file runs, then refresh_files.          *)
CreateFile(typed, dcc) ==
    /\ ~crashed
    /\ current_task
    /\ LET file_name == sanitize_string(typed)
           c == create_file(file_name, task, project, dcc, template, workdir)
           r == refresh_files(current_task, c.fs, files)
       IN  /\ Count(c.fs) <= MaxFiles
           /\ workdir' = c.fs
           /\ current_task' = r.current_task
           /\ files' = r.files
           /\ crashed' = r.crashed
           /\ last' = Last("create_file", c.res, NoFile, c.dst, file_name, dcc)
    /\ UNCHANGED <<template, project, task, codecVars, treeVars, restVars>>

(* Another program writes, replaces or removes an entry of the directory. *)
EnvWrite(n, e) ==
    /\ ~crashed
    /\ workdir.exists
    /\ Count(workdir) < MaxFiles \/ n \in DOMAIN workdir.entries
    /\ workdir' = [workdir EXCEPT !.entries =
                      [x \in DOMAIN workdir.entries \cup {n} |->
                          IF x = n THEN e ELSE workdir.entries[x]]]
    /\ last' = NoCommand("env", "none")
    /\ UNCHANGED <<template, project, task, current_task, files, crashed, codecVars, treeVars, restVars>>

EnvRemove(n) ==
    /\ ~crashed
    /\ n \in DOMAIN workdir.entries
    /\ workdir' = RemoveEntry(workdir, n)
    /\ last' = NoCommand("env", "none")
    /\ UNCHANGED <<template, project, task, current_task, files, crashed, codecVars, treeVars, restVars>>

FilesNext ==
    \/ SetCurrentTask
    \/ \E i \in 1..MaxFiles : NewVersion(i)
    \/ \E typed \in NewFileNames, dcc \in Dccs : CreateFile(typed, dcc)
    \/ \E n \in EnvNames, e \in EnvEntries : EnvWrite(n, e)
    \/ \E n \in EnvNames : EnvRemove(n)

Spec == FilesInit /\ [][FilesNext]_vars

----------------------------------------------------------------------------
(* tasks.rs: the work tree of a project on disk. A path is a sequence of   *)
(* names below the project's work directory (the root, <<>>); disk maps    *)
(* each existing path to its entry: a directory (readable or not), a       *)
(* regular file, or a dangling symbolic link, for which Path::exists,      *)
(* Path::is_file and Path::is_dir are all false.                           *)

MaxEntries == 5
MaxDepth == 3
MaxUnreadable == 1

TASK_FILE_NAME == <<"t", "a", "s", "k", ".", "y", "a", "m", "l">>

DirE(r) == [kind |-> "dir", readable |-> r]
FileE == [kind |-> "file", readable |-> TRUE]
LinkE == [kind |-> "dangling", readable |-> FALSE]

Parent(q) == SubSeq(q, 1, Len(q) - 1)

(* The entries directly inside p. *)
Children(dk, p) == {q \in DOMAIN dk : Len(q) = Len(p) + 1 /\ Parent(q) = p}

(* Every directory above q can be searched. *)
Reachable(dk, q) ==
    \A k \in 0..(Len(q) - 1) :
        LET r == SubSeq(q, 1, k)
        IN  r \in DOMAIN dk /\ dk[r].kind = "dir" /\ dk[r].readable

(* Path::exists: false for a missing path, a dangling link, or a path that *)
(* cannot be reached.                                                      *)
path_exists(dk, q) == q \in DOMAIN dk /\ dk[q].kind # "dangling" /\ Reachable(dk, q)

(* Path::is_file *)
is_file(dk, q) == path_exists(dk, q) /\ dk[q].kind = "file"

(* fs::read_dir(p) succeeds *)
read_dir_ok(dk, p) == path_exists(dk, p) /\ dk[p].kind = "dir" /\ dk[p].readable

RECURSIVE SortPaths(_)
SortPaths(S) ==
    IF S = {} THEN <<>>
    ELSE LET m == CHOOSE x \in S : \A y \in S \ {x} : StrLess(x[Len(x)], y[Len(y)])
         IN  <<m>> \o SortPaths(S \ {m})

(* The listing fs::read_dir(p) yields, in the enumeration order of the     *)
(* file system.                                                            *)
ReadDir(dk, p, desc) ==
    IF desc THEN Reverse(SortPaths(Children(dk, p))) ELSE SortPaths(Children(dk, p))

(* TaskTreeNode::new; the name of the root is the work directory's. *)
Node(p, t, ch) ==
    [name |-> IF p = <<>> THEN <<>> ELSE p[Len(p)], path |-> p, is_task |-> t, children |-> ch]

OkTree(n) == [tag |-> "ok", node |-> n]
ErrTree == [tag |-> "err", node |-> Node(<<>>, FALSE, <<>>)]

RECURSIVE TaskTreeNode_from_path(_, _, _)
RECURSIVE WalkListing(_, _, _, _)

RECURSIVE WalkListing_skipping_errors(_, _, _, _)
WalkListing_skipping_errors(dk, listing, desc, node) ==
    IF listing = <<>> THEN OkTree(node)
    ELSE IF is_file(dk, Head(listing))
    THEN WalkListing_skipping_errors(dk, Tail(listing), desc, node)
    ELSE LET child == TaskTreeNode_from_path(dk, Head(listing), desc)
         IN  IF child.tag = "err"
             THEN WalkListing_skipping_errors(dk, Tail(listing), desc, node)
             ELSE WalkListing_skipping_errors(dk, Tail(listing), desc,
                              [node EXCEPT !.children = Append(@, child.node)])

(* The loop of from_path over the listing: regular files skipped, every    *)
(* other entry recursed into, the first error returned.                    *)
WalkListing(dk, listing, desc, node) ==
    IF listing = <<>> THEN OkTree(node)
    ELSE IF is_file(dk, Head(listing)) THEN WalkListing(dk, Tail(listing), desc, node)
    ELSE LET child == TaskTreeNode_from_path(dk, Head(listing), desc)
         IN  IF child.tag = "err" THEN ErrTree
             ELSE WalkListing(dk, Tail(listing), desc,
                              [node EXCEPT !.children = Append(@, child.node)])

TaskTreeNode_from_path_walks_tasks(dk, p, desc) ==
    IF ~read_dir_ok(dk, p) THEN ErrTree
    ELSE WalkListing(dk, ReadDir(dk, p, desc), desc,
                     Node(p, path_exists(dk, p \o <<TASK_FILE_NAME>>), <<>>))

(* TaskTreeNode::from_path *)
TaskTreeNode_from_path(dk, p, desc) ==
    IF path_exists(dk, p \o <<TASK_FILE_NAME>>) THEN OkTree(Node(p, TRUE, <<>>))
    ELSE IF ~read_dir_ok(dk, p) THEN ErrTree
    ELSE WalkListing(dk, ReadDir(dk, p, desc), desc, Node(p, FALSE, <<>>))

(* A node and all nodes below it. *)
RECURSIVE Nodes(_)
Nodes(n) == {n} \cup UNION {Nodes(n.children[i]) : i \in 1..Len(n.children)}

(* disk with entry e at path q *)
PutEntry(dk, q, e) == [x \in DOMAIN dk \cup {q} |-> IF x = q THEN e ELSE dk[x]]

(* fs::create_dir(q) succeeds: nothing is at q and its parent is a         *)
(* directory that can be reached and written.                              *)
create_dir_ok(dk, q) == q \notin DOMAIN dk /\ read_dir_ok(dk, Parent(q))

TreeResult(r, dk) == [res |-> r, disk |-> dk]

(* project.work_sub_dirs *)
work_sub_dirs == << <<"w">>, <<"o">> >>

(* The steps of create_task at which the filesystem can refuse once the    *)
(* task directory is made: 1 opening the marker file, 2 writing it,        *)
(* 2 + j the j-th work sub-directory. 0: no refusal.                       *)
TaskFaults == 0..(2 + Len(work_sub_dirs))

(* The loop over project.work_sub_dirs: fs::create_dir of each, the first  *)
(* error returned; refuse = 1 when the filesystem refuses the head.        *)
RECURSIVE CreateSubDirs(_, _, _, _)
CreateSubDirs(dk, task_path, dirs, refuse) ==
    IF dirs = <<>> THEN TreeResult("ok", dk)
    ELSE IF refuse = 1 \/ ~create_dir_ok(dk, task_path \o <<Head(dirs)>>)
    THEN TreeResult("err", dk)
    ELSE CreateSubDirs(PutEntry(dk, task_path \o <<Head(dirs)>>, DirE(TRUE)),
                       task_path, Tail(dirs), refuse - 1)

(* TaskTreeNode::create_task: create_dir of the task directory, the marker *)
(* file opened and written, then one create_dir per work sub-directory;    *)
(* the first error is returned and what was created stays.                 *)
create_task(dk, parent, name, fault) ==
    LET task_path == parent \o <<name>>
        with_dir == PutEntry(dk, task_path, DirE(TRUE))
        with_marker == PutEntry(with_dir, task_path \o <<TASK_FILE_NAME>>, FileE)
    IN  IF ~create_dir_ok(dk, task_path) THEN TreeResult("err", dk)
        ELSE IF fault = 1 THEN TreeResult("err", with_dir)
        ELSE IF fault = 2 THEN TreeResult("err", with_marker)
        ELSE CreateSubDirs(with_marker, task_path, work_sub_dirs, fault - 2)

(* TaskTreeNode::create_folder *)
create_folder(dk, parent, name) ==
    IF create_dir_ok(dk, parent \o <<name>>)
    THEN TreeResult("ok", PutEntry(dk, parent \o <<name>>, DirE(TRUE)))
    ELSE TreeResult("err", dk)

(* Option<TaskTreeNode> of Rclamp::current_project_task_tree *)
NoTree == [some |-> FALSE, node |-> <<>>]
SomeTree(n) == [some |-> TRUE, node |-> n]

(* The last tree command: its name, the result of create_task or           *)
(* create_folder, and the result of the from_path it ended with ("none"    *)
(* once another program has changed the disk since).                       *)
TLast(o, r, sc) == [op |-> o, res |-> r, scan |-> sc]

(* Rclamp::refresh_tasks: the fields it leaves behind. On an error the     *)
(* tree and the open project are cleared (current_task, cleared as well,   *)
(* is already None while no task is selected).                             *)
refresh_tasks(dk, desc, cp, tr) ==
    IF ~cp THEN [current_project |-> cp, tree |-> tr, scan |-> "none"]
    ELSE LET t == TaskTreeNode_from_path(dk, <<>>, desc)
         IN  IF t.tag = "ok"
             THEN [current_project |-> TRUE, tree |-> SomeTree(t.node), scan |-> "ok"]
             ELSE [current_project |-> FALSE, tree |-> NoTree, scan |-> "err"]

(* The nodes that carry the "+ Folder" and "+ Task" buttons: the root of   *)
(* the tree and every node below it that is not a task.                    *)
ParentChoices(tr) ==
    IF tr.some THEN {tr.node} \cup {n \in Nodes(tr.node) : ~n.is_task} ELSE {}

(* What the user types as a task or folder name. *)
TypedNames == {<<"A">>, <<" ">>}

(* Names other programs give to directories, regular files and dangling    *)
(* links.                                                                  *)
EnvDirNames == {<<"a">>}
EnvFileNames == {TASK_FILE_NAME, <<"f">>}
EnvLinkName == <<"l">>

Entries(dk) == Cardinality(DOMAIN dk) - 1

IsDir(dk, q) == q \in DOMAIN dk /\ dk[q].kind = "dir"

TreeInit ==
    /\ disk = [x \in {<<>>} |-> DirE(TRUE)]
    /\ enum_desc \in BOOLEAN
    /\ current_project = FALSE
    /\ tree = NoTree
    /\ tlast = TLast("none", "none", "none")
    /\ CodecIdle
    /\ FilesIdle
    /\ RestIdle

(* The user opens the project: on an error the previous tree stays. *)
OpenProject ==
    /\ LET t == TaskTreeNode_from_path(disk, <<>>, enum_desc)
       IN  /\ tree' = IF t.tag = "ok" THEN SomeTree(t.node) ELSE tree
           /\ tlast' = TLast("open_project", "none", t.tag)
    /\ current_project' = TRUE
    /\ UNCHANGED <<disk, enum_desc, codecVars, fileVars, restVars>>

(* The user presses refresh. *)
RefreshTasks ==
    /\ current_project
    /\ LET r == refresh_tasks(disk, enum_desc, current_project, tree)
       IN  /\ tree' = r.tree
           /\ current_project' = r.current_project
           /\ tlast' = TLast("refresh_tasks", "none", r.scan)
    /\ UNCHANGED <<disk, enum_desc, codecVars, fileVars, restVars>>

(* "+ Task" on the node of the tree at path pp, a name typed, "Create". *)
CreateTask(pp, typed, fault) ==
    /\ \E n \in ParentChoices(tree) : n.path = pp
    /\ current_project
    /\ sanitize_string(typed) # <<>>
    /\ Entries(disk) + 2 + Len(work_sub_dirs) <= MaxEntries
    /\ Len(pp) + 2 <= MaxDepth
    /\ LET c == create_task(disk, pp, sanitize_string(typed), fault)
           r == refresh_tasks(c.disk, enum_desc, current_project, tree)
       IN  /\ disk' = c.disk
           /\ tree' = r.tree
           /\ current_project' = r.current_project
           /\ tlast' = TLast("create_task", c.res, r.scan)
    /\ UNCHANGED <<enum_desc, codecVars, fileVars, restVars>>

(* "+ Folder" on the node of the tree at path pp, a name typed, "Create". *)
CreateFolder(pp, typed) ==
    /\ \E n \in ParentChoices(tree) : n.path = pp
    /\ sanitize_string(typed) # <<>>
    /\ Entries(disk) + 1 <= MaxEntries
    /\ Len(pp) + 1 <= MaxDepth
    /\ LET c == create_folder(disk, pp, sanitize_string(typed))
           r == refresh_tasks(c.disk, enum_desc, current_project, tree)
       IN  /\ disk' = c.disk
           /\ tree' = r.tree
           /\ current_project' = r.current_project
           /\ tlast' = TLast("create_folder", c.res, r.scan)
    /\ UNCHANGED <<enum_desc, codecVars, fileVars, restVars>>

(* Another program creates a directory, a regular file or a dangling       *)
(* symbolic link in a directory of the work tree.                          *)
EnvCreate(q, e) ==
    /\ q \notin DOMAIN disk
    /\ IsDir(disk, Parent(q))
    /\ Entries(disk) + 1 <= MaxEntries
    /\ Len(q) <= MaxDepth
    /\ disk' = PutEntry(disk, q, e)
    /\ tlast' = TLast("env", "none", "none")
    /\ UNCHANGED <<enum_desc, current_project, tree, codecVars, fileVars, restVars>>

(* Another program takes away or gives back the permissions of a           *)
(* directory.                                                              *)
EnvChmod(q) ==
    /\ IsDir(disk, q)
    /\ disk[q].readable => Cardinality({p \in DOMAIN disk : ~disk[p].readable /\ disk[p].kind = "dir"}) < MaxUnreadable
    /\ disk' = [disk EXCEPT ![q].readable = ~@]
    /\ tlast' = TLast("env", "none", "none")
    /\ UNCHANGED <<enum_desc, current_project, tree, codecVars, fileVars, restVars>>

(* The names directories get: from other programs, from the sanitized     *)
(* names the user types, and from the work sub-directories of a task.      *)
DirNames ==
    (EnvDirNames \cup {sanitize_string(t) : t \in TypedNames}
        \cup {work_sub_dirs[i] : i \in DOMAIN work_sub_dirs}) \ {<<>>}

RECURSIVE PathsUpTo(_, _)
PathsUpTo(names, n) ==
    IF n = 0 THEN {<<>>}
    ELSE LET shorter == PathsUpTo(names, n - 1)
         IN  shorter \cup {p \o <<x>> : p \in shorter, x \in names}

DirPaths == PathsUpTo(DirNames, MaxDepth)

EnvPaths ==
    {p \o <<n>> : p \in PathsUpTo(DirNames, MaxDepth - 1),
                  n \in EnvDirNames \cup EnvFileNames \cup {EnvLinkName}}

EnvEntry(q) ==
    IF q[Len(q)] \in EnvDirNames THEN DirE(TRUE)
    ELSE IF q[Len(q)] = EnvLinkName THEN LinkE
    ELSE FileE

TreeNext ==
    \/ OpenProject
    \/ RefreshTasks
    \/ \E pp \in DirPaths, typed \in TypedNames, fault \in TaskFaults :
          CreateTask(pp, typed, fault)
    \/ \E pp \in DirPaths, typed \in TypedNames : CreateFolder(pp, typed)
    \/ \E q \in EnvPaths : EnvCreate(q, EnvEntry(q))
    \/ \E q \in DirPaths : EnvChmod(q)

SpecTree == TreeInit /\ [][TreeNext]_vars

----------------------------------------------------------------------------
(* Claims about version_up and create_file (checked under Spec) *)

VersionedName(n, v, e) == n \o <<"_", "v">> \o ThreeDigits(v) \o <<".">> \o e

(* The step is the "New version" command. *)
VersionUpStep == last'.op = "version_up"

(* The step is the "Create" command of the create-file dialog. *)
CreateFileStep == last'.op = "create_file"

(* Every entry of directory fs is in directory gs, unchanged. *)
Kept(fs, gs) ==
    /\ DOMAIN fs.entries \subseteq DOMAIN gs.entries
    /\ \A x \in DOMAIN fs.entries : gs.entries[x] = fs.entries[x]

(* C4: version_up never overwrites. When the sibling path for version + 1 *)
(* exists at the time version_up is called, version_up returns an error,  *)
(* copies nothing and leaves every file of the directory, the existing    *)
(* target included, unchanged.                                            *)
C4_NeverOverwrites ==
    [][(VersionUpStep /\ Exists(workdir, last'.dst)) =>
          /\ last'.res = "exists"
          /\ workdir' = workdir]_vars

(* C4 witness: version_up was refused because its target was there. *)
C4_Witness ==
    /\ last.op = "version_up"
    /\ last.res = "exists"
    /\ Exists(workdir, last.dst)
    /\ Exists(workdir, last.file.path)

(* C5: a successful version_up on a file (name, version n, extension)     *)
(* whose target does not exist adds exactly one file, in the same         *)
(* directory, named with the same basename and extension and version      *)
(* n + 1, with the source's bytes; the source and every other file stay   *)
(* as they were.                                                          *)
C5_VersionUpEffect ==
    [][(VersionUpStep /\ last'.res = "ok") =>
          LET f == last'.file
              target == VersionedName(f.name, f.version + 1, f.extension)
          IN  /\ last'.dst = target
              /\ ~Exists(workdir, target)
              /\ DOMAIN workdir'.entries = DOMAIN workdir.entries \cup {target}
              /\ workdir'.entries[target] = FileEntry(workdir.entries[f.path].bytes)
              /\ Kept(workdir, workdir')]_vars

(* C5 witness: p_t_v001.a was copied to p_t_v002.a. *)
C5_Witness ==
    /\ last.op = "version_up"
    /\ last.res = "ok"
    /\ last.file.version = 1
    /\ last.file.path = <<"p", "_", "t", "_", "v", "0", "0", "1", ".", "a">>
    /\ last.dst = <<"p", "_", "t", "_", "v", "0", "0", "2", ".", "a">>
    /\ Exists(workdir, last.dst)
    /\ workdir.entries[last.dst] = workdir.entries[last.file.path]

(* C6: version_up applied twice sequentially to the same file of version  *)
(* n yields two new siblings, one at version n + 1 and one at n + 2.      *)
C6_TwiceSameFile ==
    [][(last.op = "version_up" /\ last.res = "ok"
        /\ VersionUpStep /\ last'.file = last.file) =>
          LET f == last.file
          IN  /\ last'.res = "ok"
              /\ Exists(workdir', VersionedName(f.name, f.version + 1, f.extension))
              /\ Exists(workdir', VersionedName(f.name, f.version + 2, f.extension))]_vars

(* C6 as amended: after a successful version_up on a file of version n, a *)
(* second version_up on the same file fails with "File already exists!"   *)
(* and changes nothing; a version_up on the new sibling (listed as the    *)
(* same name and extension, version n + 1) creates the sibling of version *)
(* n + 2 unless that one exists, so that both siblings are then there.    *)
C6_ChainedVersionUp ==
    [][(last.op = "version_up" /\ last.res = "ok" /\ VersionUpStep) =>
          LET f == last.file
              g == last'.file
          IN  /\ g = f => (last'.res = "exists" /\ workdir' = workdir)
              /\ g.path = last.dst =>
                    /\ g.name = f.name
                    /\ g.extension = f.extension
                    /\ g.version = f.version + 1
                    /\ last'.dst = VersionedName(f.name, f.version + 2, f.extension)
                    /\ ~Exists(workdir, last'.dst) =>
                          /\ last'.res = "ok"
                          /\ Exists(workdir', last.dst)
                          /\ Exists(workdir', last'.dst)]_vars

(* C6 witness: p_t_v001.a was created from the template, version_up on   *)
(* it gave p_t_v002.a, and version_up on that one gave p_t_v003.a (other   *)
(* programs write EnvBytes, and create_file only writes version 1).        *)
C6_Witness ==
    /\ last.op = "version_up"
    /\ last.res = "ok"
    /\ last.file.path = <<"p", "_", "t", "_", "v", "0", "0", "2", ".", "a">>
    /\ last.dst = <<"p", "_", "t", "_", "v", "0", "0", "3", ".", "a">>
    /\ \A n \in {<<"p", "_", "t", "_", "v", "0", "0", "1", ".", "a">>, last.file.path, last.dst} :
          Exists(workdir, n) /\ workdir.entries[n] = FileEntry(TemplateBytes)

EndsWith(s, suffix) ==
    /\ Len(s) >= Len(suffix)
    /\ SubSeq(s, Len(s) - Len(suffix) + 1, Len(s)) = suffix

(* C7: create_file builds                                                  *)
(* '{project.name_sanitized}_{task.name}_{logicalName}_v001{dcc.extension}' *)
(* when logicalName is non-empty and                                       *)
(* '{project.name_sanitized}_{task.name}_v001{dcc.extension}' when it is   *)
(* empty; for the same task, project and dcc the two file names are        *)
(* distinct and both end in '_v001{dcc.extension}'.                        *)
C7_CreateFileName ==
    last.op = "create_file" =>
        LET suffix == <<"_", "v", "0", "0", "1">> \o last.dcc.extension
            bare == project \o <<"_">> \o task \o suffix
            named == project \o <<"_">> \o task \o <<"_">> \o last.name \o suffix
        IN  /\ last.name = <<>> => last.dst = bare
            /\ last.name # <<>> => (last.dst = named /\ last.dst # bare)
            /\ EndsWith(last.dst, suffix)
            /\ EndsWith(make_filename(<<>>, task, project, last.dcc), suffix)

(* C7 witness: with a logical name "a" the file p_t_a_v001.a was created   *)
(* beside p_t_v001.a, created with the empty name.                         *)
C7_Witness ==
    /\ last.op = "create_file"
    /\ last.res = "ok"
    /\ last.name = <<"a">>
    /\ last.dst = <<"p", "_", "t", "_", "a", "_", "v", "0", "0", "1", ".", "a">>
    /\ \A n \in {last.dst, <<"p", "_", "t", "_", "v", "0", "0", "1", ".", "a">>} :
          Exists(workdir, n) /\ workdir.entries[n] = FileEntry(TemplateBytes)

(* C8: create_file checks its preconditions in order. If the destination  *)
(* exists it fails with the already-exists error, also when the template   *)
(* is missing as well; otherwise, if the template does not exist, it       *)
(* fails with the template-missing error; in both cases nothing is copied  *)
(* and the directory is unchanged; only when both checks pass are the      *)
(* template's bytes copied verbatim to the destination.                    *)
C8_CreateFilePreconditions ==
    [][CreateFileStep =>
          LET dst == last'.dst
              there == Exists(workdir, dst)
              tpl == TemplateExists(last'.dcc, template)
          IN  /\ there => last'.res = "exists"
              /\ (~there /\ ~tpl) => last'.res = "template"
              /\ last'.res # "ok" => workdir' = workdir
              /\ last'.res = "ok" =>
                    /\ ~there /\ tpl
                    /\ workdir'.entries[dst] = FileEntry(template)
                    /\ DOMAIN workdir'.entries = DOMAIN workdir.entries \cup {dst}
                    /\ Kept(workdir, workdir')]_vars

(* C8 witness: the destination existed and the template was missing, and  *)
(* create_file reported the already-exists error.                          *)
C8_Witness ==
    /\ last.op = "create_file"
    /\ last.res = "exists"
    /\ last.dcc.found
    /\ ~TemplateExists(last.dcc, template)
    /\ Exists(workdir, last.dst)

----------------------------------------------------------------------------
(* Claims about the task tree (checked under SpecTree) *)

Dirs == {p \in DOMAIN disk : disk[p].kind = "dir"}

(* The directory p holds an entry named task.yaml that is not a dangling   *)
(* link.                                                                   *)
HasMarker(dk, p) ==
    (p \o <<TASK_FILE_NAME>>) \in DOMAIN dk /\ dk[p \o <<TASK_FILE_NAME>>].kind # "dangling"

TaskLeaf(n) == n.is_task /\ n.children = <<>>

TasksAreLeaves(n) == \A m \in Nodes(n) : m.is_task => m.children = <<>>

(* C9: from_path on a directory that can be reached and read and holds the *)
(* marker returns a task node without children, whatever else the          *)
(* directory holds; in every tree from_path returns, and in the tree the   *)
(* application shows, a task node has no children and every node of a      *)
(* directory holding the marker is a task.                                 *)
C9_TaskIsLeaf ==
    /\ \A p \in Dirs :
          LET t == TaskTreeNode_from_path(disk, p, enum_desc)
          IN  /\ (read_dir_ok(disk, p) /\ HasMarker(disk, p))
                    => t = OkTree(Node(p, TRUE, <<>>))
              /\ t.tag = "ok" =>
                    /\ TasksAreLeaves(t.node)
                    /\ \A m \in Nodes(t.node) : HasMarker(disk, m.path) => TaskLeaf(m)
    /\ tree.some => TasksAreLeaves(tree.node)

(* A tree just built shows a task whose directory has sub-directories. *)
C9_Witness ==
    /\ tree.some
    /\ tlast.scan = "ok"
    /\ \E m \in Nodes(tree.node) :
          /\ TaskLeaf(m)
          /\ HasMarker(disk, m.path)
          /\ \E q \in Children(disk, m.path) : disk[q].kind = "dir"

IsPrefix(p, q) == Len(p) <= Len(q) /\ SubSeq(q, 1, Len(p)) = p

(* Every directory at or below p can be read. *)
SubtreeReadable(dk, p) ==
    \A q \in DOMAIN dk : (IsPrefix(p, q) /\ dk[q].kind = "dir") => dk[q].readable

DirChildren(dk, p) == {q \in Children(dk, p) : dk[q].kind = "dir"}

(* C10: from_path on a readable directory without the marker, with every   *)
(* directory below it readable, returns a node that is not a task and has  *)
(* one child per immediate entry that is a directory and none for any      *)
(* other entry, each child being from_path of that directory: a task       *)
(* leaf when it holds the marker, a group otherwise.                       *)
C10_GroupChildren ==
    \A p \in Dirs :
        (read_dir_ok(disk, p) /\ ~HasMarker(disk, p) /\ SubtreeReadable(disk, p)) =>
            LET t == TaskTreeNode_from_path(disk, p, enum_desc)
                ch == t.node.children
            IN  /\ t.tag = "ok"
                /\ ~t.node.is_task
                /\ Len(ch) = Cardinality(DirChildren(disk, p))
                /\ {ch[i].path : i \in 1..Len(ch)} = DirChildren(disk, p)
                /\ \A i \in 1..Len(ch) :
                      /\ OkTree(ch[i]) = TaskTreeNode_from_path(disk, ch[i].path, enum_desc)
                      /\ ch[i].is_task <=> HasMarker(disk, ch[i].path)

(* The directory q is walked by from_path on p: it is p or below p, and no *)
(* directory from p down to the parent of q holds the marker.              *)
Walked(dk, p, q) ==
    /\ IsPrefix(p, q)
    /\ \A k \in Len(p)..(Len(q) - 1) : ~HasMarker(dk, SubSeq(q, 1, k))

WalkedDirs(dk, p) == {q \in DOMAIN dk : dk[q].kind = "dir" /\ Walked(dk, p, q)}

----------------------------------------------------------------------------
(* projects.rs: the projects directory. proot.entries maps the name of     *)
(* each immediate child to [kind, desc, dirs]: a directory or a regular    *)
(* file, what its descriptor project.yaml is (absent, not deserializable,  *)
(* or a Project), and the names of its sub-directories.                    *)

MaxChildren == 2

(* A Project record: the fields that differ between projects made from one *)
(* configuration, in declaration order; pipeline_dir_name, work_dir_name,  *)
(* dailies_dir_name, deliveries_dir_name and extra_dir_names, declared     *)
(* between name_sanitized and work_sub_dirs, are those of the template     *)
(* project in every descriptor.                                            *)
ProjectRec(n, ns, wsd) == [name |-> n, name_sanitized |-> ns, work_sub_dirs |-> wsd]

NoProject == ProjectRec(<<>>, <<>>, <<>>)

(* template_project of the configuration *)
work_dir_name == <<"k">>
dailies_dir_name == <<"d">>
deliveries_dir_name == <<"l">>
extra_dir_names == << <<"p">> >>
pipeline_dir_name == <<"i">>

(* Project::new *)
Project_new(n) == ProjectRec(n, sanitize_string(n), work_sub_dirs)

NoDesc == [tag |-> "none", project |-> NoProject]
BadDesc == [tag |-> "invalid", project |-> NoProject]
ValidDesc(p) == [tag |-> "valid", project |-> p]

ChildDir(desc, dirs) == [kind |-> "dir", desc |-> desc, dirs |-> dirs]
ChildFile == [kind |-> "file", desc |-> NoDesc, dirs |-> {}]

(* Ord for Vec<String>: lexicographic, a proper prefix first. *)
RECURSIVE VecLess(_, _)
VecLess(a, b) ==
    IF b = <<>> THEN FALSE
    ELSE IF a = <<>> THEN TRUE
    ELSE IF Head(a) # Head(b) THEN StrLess(Head(a), Head(b))
    ELSE VecLess(Tail(a), Tail(b))

(* derive(PartialOrd, Ord) for Project: the fields in declaration order. *)
ProjectLess(p, q) ==
    IF p.name # q.name THEN StrLess(p.name, q.name)
    ELSE IF p.name_sanitized # q.name_sanitized
    THEN StrLess(p.name_sanitized, q.name_sanitized)
    ELSE VecLess(p.work_sub_dirs, q.work_sub_dirs)

RECURSIVE InsertProject(_, _)
InsertProject(sorted, p) ==
    IF sorted = <<>> THEN <<p>>
    ELSE IF ProjectLess(p, Head(sorted)) THEN <<p>> \o sorted
    ELSE <<Head(sorted)>> \o InsertProject(Tail(sorted), p)

SortProjects_unsorted(ps) == ps

(* projects.sort() (a stable sort) *)
RECURSIVE SortProjects(_)
SortProjects(ps) ==
    IF ps = <<>> THEN <<>>
    ELSE InsertProject(SortProjects(SubSeq(ps, 1, Len(ps) - 1)), ps[Len(ps)])

RECURSIVE SortNames(_)
SortNames(S) ==
    IF S = {} THEN <<>>
    ELSE LET m == CHOOSE x \in S : \A y \in S \ {x} : StrLess(x, y)
         IN  <<m>> \o SortNames(S \ {m})

(* The children fs::read_dir(projects_dir) yields, in enumeration order. *)
ListRoot(root, desc) ==
    IF desc THEN Reverse(SortNames(DOMAIN root.entries)) ELSE SortNames(DOMAIN root.entries)

(* project_config_path.exists() and Project::read_project succeeds *)
read_project_ok(root, n) == root.entries[n].kind = "dir" /\ root.entries[n].desc.tag = "valid"

RECURSIVE CollectProjects_every_child(_, _)
CollectProjects_every_child(root, listing) ==
    IF listing = <<>> THEN <<>>
    ELSE <<root.entries[Head(listing)].desc.project>>
             \o CollectProjects_every_child(root, Tail(listing))

(* The loop of find_projects: one Project pushed per child whose           *)
(* descriptor exists and deserializes, the others skipped.                 *)
RECURSIVE CollectProjects(_, _)
CollectProjects(root, listing) ==
    IF listing = <<>> THEN <<>>
    ELSE IF read_project_ok(root, Head(listing))
    THEN <<root.entries[Head(listing)].desc.project>> \o CollectProjects(root, Tail(listing))
    ELSE CollectProjects(root, Tail(listing))

ProjectsResult(r, ps) == [tag |-> r, list |-> ps]

(* Project::find_projects *)
find_projects(root, desc) ==
    IF ~root.readable THEN ProjectsResult("err", <<>>)
    ELSE ProjectsResult("ok", SortProjects(CollectProjects(root, ListRoot(root, desc))))

PutChild(root, n, e) ==
    [root EXCEPT !.entries = [x \in DOMAIN root.entries \cup {n} |->
                                 IF x = n THEN e ELSE root.entries[x]]]

(* The directories Project::create makes inside the project directory, in  *)
(* the order it makes them. get_pipeline_path is not among them.           *)
subfolders == <<dailies_dir_name, deliveries_dir_name, work_dir_name>> \o extra_dir_names

(* The steps of Project::create at which the filesystem can refuse: 1 the  *)
(* project directory, 2 .. 1 + Len(subfolders) the sub-directories, then   *)
(* opening the descriptor for writing, then writing it. 0: no refusal.     *)
OpenStep == 2 + Len(subfolders)
WriteStep == 3 + Len(subfolders)
Faults == 0..WriteStep

(* The first sub-directory fs::create_dir fails on: the one the filesystem *)
(* refuses, or the first whose name was made already; 0 when none.         *)
FirstRefused(fault) ==
    LET bad == {j \in 1..Len(subfolders) :
                   \/ fault = j + 1
                   \/ \E i \in 1..(j - 1) : subfolders[i] = subfolders[j]}
    IN  IF bad = {} THEN 0 ELSE CHOOSE j \in bad : \A k \in bad : j <= k

Project_create_descriptor_first(self, root, fault) ==
    LET made(k) == {subfolders[i] : i \in 1..k}
        put(desc, dirs) == PutChild(root, self.name_sanitized, ChildDir(desc, dirs))
    IN  IF \/ ~root.readable
           \/ self.name_sanitized = <<>>
           \/ self.name_sanitized \in DOMAIN root.entries
           \/ fault = 1
        THEN [res |-> "err", root |-> root]
        ELSE IF FirstRefused(fault) # 0
        THEN [res |-> "err", root |-> put(ValidDesc(self), made(FirstRefused(fault) - 1))]
        ELSE IF fault = OpenStep
        THEN [res |-> "err", root |-> put(NoDesc, made(Len(subfolders)))]
        ELSE IF fault = WriteStep
        THEN [res |-> "err", root |-> put(BadDesc, made(Len(subfolders)))]
        ELSE [res |-> "ok", root |-> put(ValidDesc(self), made(Len(subfolders)))]

(* Project::create: fs::create_dir of the project directory (an error when *)
(* it exists or cannot be made, nothing changed), fs::create_dir of each   *)
(* sub-directory (an error leaves the directories made so far and no       *)
(* descriptor), then the descriptor opened (an error leaves none) and      *)
(* written (an error leaves a file that does not deserialize).             *)
Project_create(self, root, fault) ==
    LET made(k) == {subfolders[i] : i \in 1..k}
        put(desc, dirs) == PutChild(root, self.name_sanitized, ChildDir(desc, dirs))
    IN  IF \/ ~root.readable
           \/ self.name_sanitized = <<>>
           \/ self.name_sanitized \in DOMAIN root.entries
           \/ fault = 1
        THEN [res |-> "err", root |-> root]
        ELSE IF FirstRefused(fault) # 0
        THEN [res |-> "err", root |-> put(NoDesc, made(FirstRefused(fault) - 1))]
        ELSE IF fault = OpenStep
        THEN [res |-> "err", root |-> put(NoDesc, made(Len(subfolders)))]
        ELSE IF fault = WriteStep
        THEN [res |-> "err", root |-> put(BadDesc, made(Len(subfolders)))]
        ELSE [res |-> "ok", root |-> put(ValidDesc(self), made(Len(subfolders)))]

(* str::contains *)
Contains(s, sub) ==
    \E i \in 0..(Len(s) - Len(sub)) : SubSeq(s, i + 1, i + Len(sub)) = sub

(* Iterator::filter(...).collect() of filter_projects *)
RECURSIVE KeepMatching(_, _)
KeepMatching(ps, f) ==
    IF ps = <<>> THEN <<>>
    ELSE IF Contains(Head(ps).name, f) THEN <<Head(ps)>> \o KeepMatching(Tail(ps), f)
    ELSE KeepMatching(Tail(ps), f)

(* Rclamp::filter_projects *)
filter_projects(ps, filter_string) ==
    IF filter_string = <<>> THEN ps ELSE KeepMatching(ps, filter_string)

(* The last project command: its name, the result of Project::create, and  *)
(* the result of the find_projects it ended with ("none" once another      *)
(* program has changed the projects directory since).                      *)
PLast(o, r, sc) == [op |-> o, res |-> r, scan |-> sc]

refresh_projects_keeping_filter(root, desc, a) ==
    LET found == find_projects(root, desc)
    IN  IF found.tag = "ok"
        THEN [a EXCEPT !.projects = found.list,
                       !.projects_filtered = found.list,
                       !.scan = "ok"]
        ELSE [a EXCEPT !.tree = NoTree,
                       !.current_project = FALSE,
                       !.opened = NoProject,
                       !.current_task = FALSE,
                       !.scan = "err"]

(* Rclamp::refresh_projects: the fields it leaves behind. *)
refresh_projects(root, desc, a) ==
    LET found == find_projects(root, desc)
    IN  IF found.tag = "ok"
        THEN [a EXCEPT !.projects = found.list,
                       !.project_filter = <<>>,
                       !.projects_filtered = found.list,
                       !.scan = "ok"]
        ELSE [a EXCEPT !.tree = NoTree,
                       !.current_project = FALSE,
                       !.opened = NoProject,
                       !.current_task = FALSE,
                       !.scan = "err"]

(* The fields of Rclamp that refresh_projects reads or writes. *)
ProjectFields ==
    [projects |-> projects, project_filter |-> project_filter,
     projects_filtered |-> projects_filtered, tree |-> tree,
     current_project |-> current_project, opened |-> opened,
     current_task |-> current_task, scan |-> "none"]

(* Names of children of the projects directory, the Projects their         *)
(* descriptors hold, what the user types as a project name or as filter.   *)
ChildNames == {<<"a">>, <<"b">>, <<"f">>}
DescProjects ==
    {ProjectRec(<<"a">>, <<"a">>, work_sub_dirs),
     ProjectRec(<<"a">>, <<"b">>, work_sub_dirs),
     ProjectRec(<<"b">>, <<"b">>, <<work_sub_dirs[1]>>)}
ChildEntries(n) ==
    IF n = <<"f">> THEN {ChildFile}
    ELSE {ChildDir(d, {}) : d \in {NoDesc, BadDesc} \cup {ValidDesc(p) : p \in DescProjects}}
TypedProjectNames == {<<>>, <<"A">>, <<" ">>}
FilterStrings == {<<>>, <<"a">>, <<"b">>}

ProjInit ==
    /\ proot \in {[readable |-> r, entries |-> <<>>] : r \in BOOLEAN}
    /\ projects = <<>>
    /\ project_filter = <<>>
    /\ projects_filtered = <<>>
    /\ plast = PLast("none", "none", "none")
    /\ CodecIdle /\ FilesIdle /\ TreeIdle /\ SanIdle /\ RaceIdle /\ AppIdle /\ MoreIdle

ProjAssign(a) ==
    /\ projects' = a.projects
    /\ project_filter' = a.project_filter
    /\ projects_filtered' = a.projects_filtered
    /\ tree' = a.tree
    /\ current_project' = a.current_project
    /\ opened' = a.opened
    /\ current_task' = a.current_task

ProjFrame ==
    UNCHANGED <<codecVars, sanVars, raceVars, selVars, dialogVars, clientVars,
                workdir, template, project, task, files,
                crashed, last, disk, enum_desc, tlast, templates, dccs, alast>>

(* refresh_projects, run by the refresh button or after a command. *)
RefreshProjects(desc) ==
    /\ LET a == refresh_projects(proot, desc, ProjectFields)
       IN  ProjAssign(a) /\ plast' = PLast("refresh_projects", "none", a.scan)
    /\ UNCHANGED proot
    /\ ProjFrame

(* "Create" in the project dialog with the name typed; fault is the step  *)
(* of Project::create the filesystem refuses.                              *)
CreateProject(typed, desc, fault) ==
    /\ Len(typed) > 0
    /\ Cardinality(DOMAIN proot.entries) < MaxChildren
    /\ LET c == Project_create(Project_new(sanitize_string(typed)), proot, fault)
           a == refresh_projects(c.root, desc, ProjectFields)
       IN  /\ proot' = c.root
           /\ ProjAssign(a)
           /\ plast' = PLast("create_project", c.res, a.scan)
    /\ ProjFrame

(* The filter text is edited. *)
FilterProjects(f) ==
    /\ project_filter' = f
    /\ projects_filtered' = filter_projects(projects, f)
    /\ plast' = [plast EXCEPT !.op = "filter_projects"]
    /\ UNCHANGED <<proot, projects, tree, current_project, opened, current_task>>
    /\ ProjFrame

(* Another program creates or replaces a child of the projects directory,  *)
(* or takes away or gives back the permissions of the directory.           *)
EnvPutChild(n, e) ==
    /\ n \in DOMAIN proot.entries \/ Cardinality(DOMAIN proot.entries) < MaxChildren
    /\ e \in ChildEntries(n)
    /\ proot' = PutChild(proot, n, e)
    /\ plast' = PLast("env", "none", "none")
    /\ UNCHANGED <<projects, project_filter, projects_filtered, tree, current_project,
                   opened, current_task>>
    /\ ProjFrame

EnvRootChmod ==
    /\ proot' = [proot EXCEPT !.readable = ~@]
    /\ plast' = PLast("env", "none", "none")
    /\ UNCHANGED <<projects, project_filter, projects_filtered, tree, current_project,
                   opened, current_task>>
    /\ ProjFrame

AllChildEntries == UNION {ChildEntries(n) : n \in ChildNames}

ProjNext ==
    \/ \E desc \in BOOLEAN : RefreshProjects(desc)
    \/ \E typed \in TypedProjectNames, desc \in BOOLEAN, fault \in Faults :
          CreateProject(typed, desc, fault)
    \/ \E f \in FilterStrings : FilterProjects(f)
    \/ \E n \in ChildNames, e \in AllChildEntries : EnvPutChild(n, e)
    \/ EnvRootChmod

SpecProjects == ProjInit /\ [][ProjNext]_vars

----------------------------------------------------------------------------
(* Claims about find_projects (checked under SpecProjects) *)

(* The children of the projects directory whose descriptor deserializes. *)
ValidChildren(root) ==
    {n \in DOMAIN root.entries :
        root.entries[n].kind = "dir" /\ root.entries[n].desc.tag = "valid"}

Occurrences(list, p) == Cardinality({i \in 1..Len(list) : list[i] = p})

(* list holds one Project per child with a valid descriptor, no other. *)
OnePerValidChild(root, list) ==
    /\ Len(list) = Cardinality(ValidChildren(root))
    /\ \A n \in ValidChildren(root) :
          Occurrences(list, root.entries[n].desc.project)
              = Cardinality({m \in ValidChildren(root) :
                                root.entries[m].desc.project = root.entries[n].desc.project})

(* C12: on a readable projects directory find_projects returns Ok with     *)
(* exactly one Project per immediate child whose descriptor deserializes   *)
(* and nothing for any other child, whatever the enumeration order: the    *)
(* empty list for an empty directory; and the list the application holds   *)
(* after a successful refresh is that list.                                *)
C12_FindProjects ==
    /\ proot.readable =>
          \A desc \in BOOLEAN :
              LET found == find_projects(proot, desc)
              IN  /\ found.tag = "ok"
                  /\ OnePerValidChild(proot, found.list)
                  /\ (DOMAIN proot.entries = {}) => found.list = <<>>
    /\ plast.scan = "ok" => OnePerValidChild(proot, projects)

(* A refresh has just listed a directory with one child without descriptor *)
(* and one with a valid descriptor, and found exactly one Project.         *)
C12_Witness ==
    /\ plast.scan = "ok"
    /\ proot.readable
    /\ Len(projects) = 1
    /\ \E n, m \in DOMAIN proot.entries :
          /\ n # m
          /\ proot.entries[n] = ChildDir(NoDesc, {})
          /\ proot.entries[m].desc = ValidDesc(projects[1])

(* p is before q or equal to it in the natural order of Project: name      *)
(* first, then name_sanitized, then work_sub_dirs.                         *)
NaturalLeq(p, q) ==
    \/ StrLess(p.name, q.name)
    \/ /\ p.name = q.name
       /\ \/ StrLess(p.name_sanitized, q.name_sanitized)
          \/ /\ p.name_sanitized = q.name_sanitized
             /\ \/ VecLess(p.work_sub_dirs, q.work_sub_dirs)
                \/ p.work_sub_dirs = q.work_sub_dirs

SortedProjects(list) == \A i, j \in 1..Len(list) : i < j => NaturalLeq(list[i], list[j])

(* C13: the list find_projects returns is sorted ascending in the natural  *)
(* order of Project and is the same for both enumeration orders of the     *)
(* projects directory; the list the application holds is always sorted.    *)
C13_SortedProjects ==
    /\ \A desc \in BOOLEAN : SortedProjects(find_projects(proot, desc).list)
    /\ find_projects(proot, TRUE) = find_projects(proot, FALSE)
    /\ SortedProjects(projects)

(* A refresh has just found two Projects of the same name, ordered by      *)
(* their second field, in a directory whose children enumerate in the      *)
(* other order in one of the two enumeration orders.                       *)
C13_Witness ==
    /\ plast.scan = "ok"
    /\ Len(projects) = 2
    /\ projects[1].name = projects[2].name
    /\ StrLess(projects[1].name_sanitized, projects[2].name_sanitized)
    /\ \E desc \in BOOLEAN :
          CollectProjects(proot, ListRoot(proot, desc)) = <<projects[2], projects[1]>>

----------------------------------------------------------------------------
(* sanitize_string applied to display names, once and once more. *)

MaxDisplayLen == 3

DisplayAlphabet == {"A", "a", "1", "_", "-", " ", "aa", "ae", "oe", "OE", "ee"}

DisplayNames == StrUpTo(DisplayAlphabet, MaxDisplayLen)

SanInit ==
    /\ sname \in DisplayNames
    /\ sresult = <<>>
    /\ sstage = "name"
    /\ CodecIdle /\ FilesIdle /\ TreeIdle /\ ProjIdle /\ RaceIdle /\ AppIdle /\ MoreIdle

(* sanitize_string(display name) *)
Sanitize ==
    /\ sstage = "name"
    /\ sresult' = sanitize_string(sname)
    /\ sstage' = "once"
    /\ UNCHANGED <<sname, codecVars, fileVars, treeVars, projVars, raceVars, appVars,
                   selVars, dialogVars, clientVars>>

(* sanitize_string applied to its own result, as Project::new does with    *)
(* the sanitized name the project dialog hands it.                         *)
SanitizeAgain ==
    /\ sstage = "once"
    /\ sresult' = sanitize_string(sresult)
    /\ sstage' = "twice"
    /\ UNCHANGED <<sname, codecVars, fileVars, treeVars, projVars, raceVars, appVars,
                   selVars, dialogVars, clientVars>>

SanNext == Sanitize \/ SanitizeAgain

SpecSanitize == SanInit /\ [][SanNext]_vars

(* What one character of the display name contributes. *)
MapChar(c) ==
    CASE c \in {"A", "a"} -> <<"a">>
      [] c = "1" -> <<"1">>
      [] c \in {"_", "-"} -> <<"_">>
      [] c \in {"aa", "ae"} -> <<"a">>
      [] c \in {"oe", "OE"} -> <<"o">>
      [] OTHER -> <<>>

RECURSIVE MapAll(_)
MapAll(s) == IF s = <<>> THEN <<>> ELSE MapChar(Head(s)) \o MapAll(Tail(s))

(* C14: the result of sanitize_string is the concatenation, in order, of   *)
(* what each character maps to (ASCII letters lowercased and digits kept,  *)
(* '_' and '-' to '_', a-ring and a-umlaut to 'a', o-umlaut to 'o', the    *)
(* rest dropped); it holds only a-z, 0-9 and '_'; sanitizing it again      *)
(* changes nothing; and it is not empty when the name has a character      *)
(* that is kept or mapped.                                                 *)
C14_Sanitize ==
    sstage \in {"once", "twice"} =>
        /\ sresult = MapAll(sname)
        /\ \A i \in 1..Len(sresult) : sresult[i] \in {"a", "o", "1", "_"}
        /\ (\E i \in 1..Len(sname) : MapChar(sname[i]) # <<>>) => sresult # <<>>

(* A name mixing kept, mapped and dropped characters has been sanitized    *)
(* twice.                                                                  *)
C14_Witness ==
    /\ sstage = "twice"
    /\ sname = <<"OE", " ", "-">>
    /\ sresult = <<"o", "_">>

----------------------------------------------------------------------------
(* The order of the file list: set_current_task and "New version" on work  *)
(* directories that hold workfiles of two names, three extensions and two  *)
(* versions.                                                               *)

OrderNames ==
    { <<"p", "_", "t", "_", "v", "0", "0", "1", ".", "a">>,
      <<"p", "_", "t", "_", "v", "0", "0", "2", ".", "a">>,
      <<"p", "_", "t", "_", "v", "0", "0", "1", ".", "c">>,
      <<"p", "_", "t", "_", "v", "0", "0", "2", ".", "c">>,
      <<"p", "_", "t", "_", "v", "0", "0", "2", ".", "b">>,
      <<"a", "_", "v", "0", "0", "1", ".", "a">> }

OrderInit ==
    /\ workdir \in {[exists |-> TRUE, entries |-> [n \in S |-> FileEntry(EnvBytes)]] :
                       S \in {T \in SUBSET OrderNames : Cardinality(T) <= MaxFiles}}
    /\ template = 0
    /\ project \in ProjectNames
    /\ task \in TaskNames
    /\ current_task = FALSE
    /\ files = [some |-> FALSE, list |-> <<>>]
    /\ crashed = FALSE
    /\ last = NoCommand("none", "none")
    /\ CodecIdle
    /\ TreeIdle
    /\ RestIdle

OrderNext ==
    \/ SetCurrentTask
    \/ \E i \in 1..MaxFiles : NewVersion(i)

SpecOrder == OrderInit /\ [][OrderNext]_vars

(* f is before g or equal to it in the order by (name, extension,          *)
(* version).                                                               *)
NameExtVersionLeq(f, g) ==
    \/ StrLess(f.name, g.name)
    \/ /\ f.name = g.name
       /\ \/ StrLess(f.extension, g.extension)
          \/ f.extension = g.extension /\ f.version <= g.version

(* C15: the file list the application stores is in the reverse of the      *)
(* ascending order by (name, extension, version): of two files with the    *)
(* same name the one with the greater extension comes first, whatever      *)
(* their versions.                                                         *)
C15_OrderByNameExtensionVersion ==
    files.some =>
        \A i, j \in 1..Len(files.list) :
            i < j => NameExtVersionLeq(files.list[j], files.list[i])

----------------------------------------------------------------------------
(* app.rs: the application as a whole. The projects directory holds three  *)
(* projects, "a" and "c" with two work sub-directories and "b" with one;   *)
(* the work trees of "a" and "c" hold the same directories, one task, and  *)
(* disk is the one being read; tree_project and task_project record which  *)
(* project's directory the tree shown and the task chosen lie in, as the   *)
(* paths of the nodes do; workdir is the primary work directory of the     *)
(* task; templates is the templates directory.                             *)
(* Other programs only take these directories away and give them back.     *)

(* Dcc::find_dcc *)
find_dcc(t) ==
    IF ~t.readable THEN [tag |-> "err", list |-> <<>>]
    ELSE [tag |-> "ok", list |-> IF t.found THEN <<FoundDcc>> ELSE <<>>]

(* The fields of Rclamp the refresh functions read or write, and the       *)
(* outcome of each scan of the command under way.                          *)
AppFields ==
    [dccs |-> dccs, projects |-> projects, project_filter |-> project_filter,
     projects_filtered |-> projects_filtered, tree |-> tree,
     current_project |-> current_project, opened |-> opened,
     current_task |-> current_task, files |-> files, crashed |-> crashed,
     tree_project |-> tree_project, task_project |-> task_project,
     dcc_scan |-> "none", scan |-> "none", tree_scan |-> "none", files_scan |-> "none"]

(* Rclamp::refresh_dcc: the list found, the empty list on an error. *)
refresh_dcc(t, a) ==
    LET found == find_dcc(t)
    IN  IF found.tag = "ok" THEN [a EXCEPT !.dccs = found.list, !.dcc_scan = "ok"]
        ELSE [a EXCEPT !.dccs = <<>>, !.dcc_scan = "err"]

(* Rclamp::refresh_tasks with the indexing of work_sub_dirs[0] and [1]:    *)
(* a panic when the open project lists fewer than two.                     *)
app_refresh_tasks(dk, desc, a) ==
    IF a.crashed \/ ~a.current_project THEN a
    ELSE IF Len(a.opened.work_sub_dirs) < 2 THEN [a EXCEPT !.crashed = TRUE]
    ELSE LET r == refresh_tasks(dk, desc, TRUE, a.tree)
         IN  IF r.scan = "ok"
             THEN [a EXCEPT !.tree = r.tree, !.tree_project = a.opened.name_sanitized,
                            !.tree_scan = "ok"]
             ELSE [a EXCEPT !.tree = NoTree, !.current_project = FALSE,
                            !.opened = NoProject, !.current_task = FALSE,
                            !.tree_scan = "err"]

(* Rclamp::set_current_task: nothing without an open project. *)
app_set_current_task(fs, a) ==
    IF ~a.current_project THEN a
    ELSE LET r == set_current_task(fs, a.files)
         IN  [a EXCEPT !.current_task = r.current_task, !.files = r.files,
                       !.crashed = r.crashed,
                       !.files_scan = IF r.current_task THEN "ok" ELSE "err"]

(* Rclamp::refresh_files *)
app_refresh_files(fs, a) ==
    IF a.crashed \/ ~a.current_task THEN a ELSE app_set_current_task(fs, a)

(* Rclamp::refresh_all, the configuration reloaded unchanged. *)
refresh_all(t, root, dk, fs, desc, a) ==
    app_refresh_files(fs,
        app_refresh_tasks(dk, desc,
            refresh_projects(root, desc,
                refresh_dcc(t, a))))

(* Rclamp::open_project *)
open_project(p, dk, desc, a) ==
    LET b == [a EXCEPT !.current_project = TRUE, !.opened = p]
    IN  IF Len(p.work_sub_dirs) < 2 THEN [b EXCEPT !.crashed = TRUE]
        ELSE LET t == TaskTreeNode_from_path(dk, <<>>, desc)
             IN  IF t.tag = "ok"
                 THEN [b EXCEPT !.tree = SomeTree(t.node),
                                !.tree_project = p.name_sanitized, !.tree_scan = "ok"]
                 ELSE [b EXCEPT !.tree_scan = "err"]

(* The last application command and the outcome of each scan it ran. *)
ALast(o, a) ==
    [op |-> o, dcc |-> a.dcc_scan, projects |-> a.scan, tree |-> a.tree_scan,
     files |-> a.files_scan]

AppAssign(a) ==
    /\ dccs' = a.dccs
    /\ projects' = a.projects
    /\ project_filter' = a.project_filter
    /\ projects_filtered' = a.projects_filtered
    /\ tree' = a.tree
    /\ current_project' = a.current_project
    /\ opened' = a.opened
    /\ current_task' = a.current_task
    /\ files' = a.files
    /\ crashed' = a.crashed
    /\ tree_project' = IF a.tree.some THEN a.tree_project ELSE <<>>
    /\ task_project' = IF a.current_task THEN a.task_project ELSE <<>>

AppDisks == <<proot, disk, workdir, templates>>

AppFrame ==
    UNCHANGED <<codecVars, sanVars, raceVars, dialogVars, clientVars,
                template, project, task, last,
                enum_desc, tlast, plast>>

AppRoot ==
    [readable |-> TRUE,
     entries |-> [n \in {<<"a">>, <<"b">>, <<"c">>} |->
                    IF n # <<"b">>
                    THEN ChildDir(ValidDesc(ProjectRec(n, n, work_sub_dirs)),
                                  {work_dir_name})
                    ELSE ChildDir(ValidDesc(ProjectRec(<<"b">>, <<"b">>,
                                                       <<work_sub_dirs[1]>>)),
                                  {work_dir_name})]]

AppDisk ==
    [q \in {<<>>, <<<<"t">>>>, <<<<"t">>, TASK_FILE_NAME>>, <<<<"t">>, work_sub_dirs[1]>>} |->
        IF q = <<<<"t">>, TASK_FILE_NAME>> THEN FileE ELSE DirE(TRUE)]

AppWorkdir ==
    [exists |-> TRUE,
     entries |-> [n \in {<<"a", "_", "t", "_", "v", "0", "0", "1", ".", "a">>} |->
                     FileEntry(EnvBytes)]]

AppInit ==
    /\ proot = AppRoot
    /\ disk = AppDisk
    /\ workdir = AppWorkdir
    /\ templates \in {[readable |-> TRUE, found |-> f] : f \in BOOLEAN}
    /\ enum_desc \in BOOLEAN
    /\ dccs = <<>>
    /\ projects = <<>>
    /\ project_filter = <<>>
    /\ projects_filtered = <<>>
    /\ tree = NoTree
    /\ current_project = FALSE
    /\ opened = NoProject
    /\ current_task = FALSE
    /\ files = [some |-> FALSE, list |-> <<>>]
    /\ crashed = FALSE
    /\ alast = [op |-> "none", dcc |-> "none", projects |-> "none", tree |-> "none",
                files |-> "none"]
    /\ template = 0 /\ project = <<>> /\ task = <<>>
    /\ last = [op |-> "none", res |-> "none", file |-> NoFile, dst |-> <<>>,
               name |-> <<>>, dcc |-> [name |-> "", extension |-> <<>>, found |-> FALSE]]
    /\ tlast = [op |-> "none", res |-> "none", scan |-> "none"]
    /\ plast = [op |-> "none", res |-> "none", scan |-> "none"]
    /\ tree_project = <<>> /\ task_project = <<>>
    /\ CodecIdle /\ SanIdle /\ RaceIdle /\ DialogIdle /\ ClientIdle

(* The refresh button. *)
RefreshAll ==
    /\ ~crashed
    /\ LET a == refresh_all(templates, proot, disk, workdir, enum_desc, AppFields)
       IN  AppAssign(a) /\ alast' = ALast("refresh_all", a)
    /\ UNCHANGED AppDisks
    /\ AppFrame

(* A click on row i of the project list. *)
AppOpenProject(i) ==
    /\ ~crashed
    /\ i \in 1..Len(projects_filtered)
    /\ LET a == open_project(projects_filtered[i], disk, enum_desc, AppFields)
       IN  AppAssign(a) /\ alast' = ALast("open_project", a)
    /\ UNCHANGED AppDisks
    /\ AppFrame

(* A click on a task of the tree shown. *)
AppSetCurrentTask ==
    /\ ~crashed
    /\ tree.some
    /\ \E n \in Nodes(tree.node) : n.is_task
    /\ LET b == app_set_current_task(workdir, AppFields)
           a == IF current_project THEN [b EXCEPT !.task_project = tree_project] ELSE b
       IN  AppAssign(a) /\ alast' = ALast("set_current_task", a)
    /\ UNCHANGED AppDisks
    /\ AppFrame

AppUnchanged ==
    UNCHANGED <<dccs, projects, project_filter, projects_filtered, tree, current_project,
                opened, current_task, files, crashed, tree_project, task_project>>

(* Another program takes a directory away or gives it back. *)
EnvToggle(which) ==
    /\ ~crashed
    /\ proot' = IF which = "projects" THEN [proot EXCEPT !.readable = ~@] ELSE proot
    /\ disk' = IF which = "work tree" THEN [disk EXCEPT ![<<>>].readable = ~@] ELSE disk
    /\ workdir' = IF which = "work directory" THEN [workdir EXCEPT !.exists = ~@]
                  ELSE workdir
    /\ templates' = IF which = "templates" THEN [templates EXCEPT !.readable = ~@]
                    ELSE templates
    /\ alast' = [op |-> "env", dcc |-> "none", projects |-> "none", tree |-> "none",
                 files |-> "none"]
    /\ AppUnchanged
    /\ AppFrame

(* files_table: "New version" on row i of the file table, shown whenever   *)
(* files is Some, then refresh_files.                                      *)
AppNewVersion(i) ==
    /\ ~crashed
    /\ files.some
    /\ i \in 1..Len(files.list)
    /\ LET f == files.list[i]
           v == version_up(f, workdir)
           a == app_refresh_files(v.fs, AppFields)
       IN  /\ Count(v.fs) <= MaxFiles
           /\ workdir' = v.fs
           /\ AppAssign(a)
           /\ alast' = ALast("version_up", a)
           /\ last' = Last("version_up", v.res, f, v.dst, <<>>, DefaultDcc)
    /\ UNCHANGED <<proot, disk, templates>>
    /\ UNCHANGED <<codecVars, sanVars, raceVars, dialogVars, clientVars,
                   template, project, task,
                   enum_desc, tlast, plast>>

MaxRows == 3

AppNext ==
    \/ RefreshAll
    \/ \E i \in 1..MaxRows : AppOpenProject(i)
    \/ AppSetCurrentTask
    \/ \E i \in 1..MaxFiles : AppNewVersion(i)
    \/ \E which \in {"projects", "work tree", "work directory", "templates"} : EnvToggle(which)

SpecApp == AppInit /\ [][AppNext]_vars

----------------------------------------------------------------------------
(* Claims about refresh and panics (checked under SpecApp) *)

(* C16: a refresh whose scan fails leaves the result of the last           *)
(* successful scan as it was: the dcc list when find_dcc fails, the        *)
(* project lists when find_projects fails, the task tree when from_path    *)
(* fails, the file list when find_workfiles fails.                         *)
C16_FailedRefreshRetains ==
    [][alast'.op = "refresh_all" =>
          /\ alast'.dcc = "err" => dccs' = dccs
          /\ alast'.projects = "err" =>
                projects' = projects /\ projects_filtered' = projects_filtered
          /\ alast'.tree = "err" => tree' = tree
          /\ alast'.files = "err" => files' = files]_vars

(* C17: a refresh whose task-tree build fails leaves the current project   *)
(* selection as it was, and a refresh whose project scan fails leaves     *)
(* the task tree and the task selection as they were.                      *)
C17_OnlyOwnSelectionCleared ==
    [][alast'.op = "refresh_all" =>
          /\ alast'.tree = "err" =>
                current_project' = current_project /\ opened' = opened
          /\ alast'.projects = "err" =>
                tree' = tree /\ current_task' = current_task]_vars

(* C18: no command ends in a panic. *)
C18_NoPanic == ~crashed

(* C20: after the "New version" command, whether version_up succeeded or   *)
(* failed, the file list is recomputed from the work directory of the      *)
(* current task, and after a successful command and a successful rescan    *)
(* the list is the decodable, unfiltered files of the directory, sorted    *)
(* and reversed.                                                           *)
C20_NewVersionRescans ==
    [][alast'.op = "version_up" =>
          /\ alast'.files # "none"
          /\ (last'.res = "ok" /\ alast'.files = "ok") =>
                files' = [some |-> TRUE,
                          list |-> Reverse(SortFiles(filter_files(
                                      find_workfiles(workdir').files)))]]_vars

----------------------------------------------------------------------------
(* version_up and create_file as the steps they are made of, run by        *)
(* several invocations (instances of the application on one shared work    *)
(* directory) with nothing to keep them apart: the existence check of the  *)
(* destination, for create_file the existence check of the template, then  *)
(* fs::copy. rdir holds the directory, the template's bytes, and who       *)
(* copied onto each destination, in order.                                 *)

MaxInvocations == 2

Invocations == 1..MaxInvocations

RaceSelf ==
    OkFile(<<"p", "_", "t">>, <<"p", "_", "t", "_", "v", "0", "0", "1", ".", "a">>, <<"a">>, 1)

(* new_path of version_up, path of create_file *)
RaceTarget(kind) ==
    IF kind = "version_up"
    THEN make_filename_from_self(increase_version_number(RaceSelf))
    ELSE make_filename(<<>>, <<"t">>, <<"p">>, FoundDcc)

RaceNames == {RaceTarget("version_up"), RaceTarget("create_file")}

(* new_path.try_exists() / path.try_exists(): the invocation goes on when  *)
(* the destination is not there, else returns "File already exists!".      *)
race_check_destination(kind, r) ==
    IF Exists(r.fs, RaceTarget(kind)) THEN "exists" ELSE "none"

(* dcc.template_path.try_exists() *)
race_check_template(r) == IF r.tpl # 0 THEN "none" ELSE "template"

race_copy_exclusive(kind, p, r) ==
    LET dst == RaceTarget(kind)
        bytes == IF kind = "version_up"
                 THEN IF CopyOk(r.fs, RaceSelf.path) THEN r.fs.entries[RaceSelf.path].bytes
                      ELSE 0
                 ELSE r.tpl
    IN  IF Exists(r.fs, dst) THEN [res |-> "exists", dir |-> r]
        ELSE IF bytes = 0 \/ ~r.fs.exists THEN [res |-> "io", dir |-> r]
        ELSE [res |-> "ok",
              dir |-> [r EXCEPT !.fs = WriteFile(r.fs, dst, bytes),
                                !.writers[dst] = Append(@, p)]]

(* fs::copy(from, to): an error when the source is not there, else the     *)
(* destination created or truncated and written.                           *)
race_copy(kind, p, r) ==
    LET dst == RaceTarget(kind)
        bytes == IF kind = "version_up"
                 THEN IF CopyOk(r.fs, RaceSelf.path) THEN r.fs.entries[RaceSelf.path].bytes
                      ELSE 0
                 ELSE r.tpl
    IN  IF bytes = 0 \/ ~r.fs.exists THEN [res |-> "io", dir |-> r]
        ELSE [res |-> "ok",
              dir |-> [r EXCEPT !.fs = WriteFile(r.fs, dst, bytes),
                                !.writers[dst] = Append(@, p)]]

RaceKinds == {"version_up", "create_file"}

RaceInit ==
    /\ rdir \in {[fs |-> [exists |-> TRUE, entries |-> [n \in S |-> FileEntry(EnvBytes)]],
                  tpl |-> t,
                  writers |-> [n \in RaceNames |-> <<>>]] :
                    S \in SUBSET RaceNames, t \in {0, TemplateBytes}}
    /\ rpc \in [Invocations -> {[kind |-> k, at |-> "start"] : k \in RaceKinds}]
    /\ rres = [p \in Invocations |-> "none"]
    /\ CodecIdle /\ FilesIdle /\ TreeIdle /\ SanIdle /\ ProjIdle /\ AppIdle /\ MoreIdle

RaceFrame ==
    UNCHANGED <<codecVars, fileVars, treeVars, sanVars, projVars, appVars,
                selVars, dialogVars, clientVars>>

(* Invocation p tests whether its destination exists. *)
CheckDestination(p) ==
    /\ rpc[p].at = "start"
    /\ LET c == race_check_destination(rpc[p].kind, rdir)
       IN  /\ rres' = [rres EXCEPT ![p] = c]
           /\ rpc' = [rpc EXCEPT ![p].at =
                        IF c # "none" THEN "done"
                        ELSE IF rpc[p].kind = "create_file" THEN "checked" ELSE "ready"]
    /\ UNCHANGED rdir
    /\ RaceFrame

(* Invocation p of create_file tests whether the template exists. *)
CheckTemplate(p) ==
    /\ rpc[p].at = "checked"
    /\ LET c == race_check_template(rdir)
       IN  /\ rres' = [rres EXCEPT ![p] = c]
           /\ rpc' = [rpc EXCEPT ![p].at = IF c # "none" THEN "done" ELSE "ready"]
    /\ UNCHANGED rdir
    /\ RaceFrame

(* Invocation p copies. *)
Copy(p) ==
    /\ rpc[p].at = "ready"
    /\ LET c == race_copy(rpc[p].kind, p, rdir)
       IN  /\ rdir' = c.dir
           /\ rres' = [rres EXCEPT ![p] = c.res]
    /\ rpc' = [rpc EXCEPT ![p].at = "done"]
    /\ RaceFrame

RaceNext ==
    \/ \E p \in Invocations : CheckDestination(p)
    \/ \E p \in Invocations : CheckTemplate(p)
    \/ \E p \in Invocations : Copy(p)

SpecRace == RaceInit /\ [][RaceNext]_vars

(* C19: nothing joins the existence check to the copy: an invocation that  *)
(* has passed its checks and whose source is there copies with success and *)
(* writes the destination whatever another invocation has created there    *)
(* since, so that with two invocations that both passed the check the      *)
(* second copy overwrites the file of the first and both report success.   *)
C19_CheckThenCopyRace ==
    [][\A p \in Invocations :
          (rpc[p].at = "ready" /\ rpc'[p].at = "done" /\ rres'[p] # "io") =>
              LET dst == RaceTarget(rpc[p].kind)
              IN  /\ rres'[p] = "ok"
                  /\ rdir'.writers[dst] = Append(rdir.writers[dst], p)
                  /\ Exists(rdir'.fs, dst)]_vars

(* Two invocations of version_up, or of create_file, have both passed the  *)
(* check, both copied onto the same destination and both returned Ok.      *)
C19_Witness ==
    /\ \A p \in Invocations : rpc[p].at = "done" /\ rres[p] = "ok"
    /\ rpc[1].kind = rpc[2].kind
    /\ Len(rdir.writers[RaceTarget(rpc[1].kind)]) >= 2

----------------------------------------------------------------------------
(* "New version" at the ends of the three-digit range: work directories    *)
(* that hold workfiles of versions 1, 9, 99, 998 and 999, and one without  *)
(* an extension.                                                           *)

VersionNames ==
    { <<"p", "_", "t", "_", "v", "0", "0", "1", ".", "a">>,
      <<"p", "_", "t", "_", "v", "0", "0", "9", ".", "a">>,
      <<"p", "_", "t", "_", "v", "0", "9", "9", ".", "a">>,
      <<"p", "_", "t", "_", "v", "9", "9", "8", ".", "a">>,
      <<"p", "_", "t", "_", "v", "9", "9", "9", ".", "a">>,
      <<"p", "_", "t", "_", "v", "0", "0", "1">> }

VersionsInit ==
    /\ workdir \in {[exists |-> TRUE, entries |-> [n \in S |-> FileEntry(EnvBytes)]] :
                       S \in {T \in SUBSET VersionNames : Cardinality(T) <= MaxFiles}}
    /\ template = 0
    /\ project \in ProjectNames
    /\ task \in TaskNames
    /\ current_task = FALSE
    /\ files = [some |-> FALSE, list |-> <<>>]
    /\ crashed = FALSE
    /\ last = NoCommand("none", "none")
    /\ CodecIdle
    /\ TreeIdle
    /\ RestIdle

VersionsNext ==
    \/ SetCurrentTask
    \/ \E i \in 1..MaxFiles : NewVersion(i)

SpecVersions == VersionsInit /\ [][VersionsNext]_vars

(* C22: the file a successful version_up creates decodes, with from_path,  *)
(* to a File of the same name, the same extension and the source's         *)
(* version + 1, for every source version up to 999.                        *)
C22_VersionUpDecodes ==
    [][(last'.op = "version_up" /\ last'.res = "ok"
            /\ last'.file.version <= MaxContractVersion) =>
          LET d == from_path(last'.dst)
          IN  /\ d.tag = "ok"
              /\ d.name = last'.file.name
              /\ d.extension = last'.file.extension
              /\ d.version = last'.file.version + 1]_vars

----------------------------------------------------------------------------
(* create_file with the descriptors an app.yaml can hold: Dcc is read by   *)
(* serde_yaml with no test of its extension, and find_dcc keeps it when    *)
(* the file "template" + extension is there. Extensions: ".a", "" (the     *)
(* template is named "template"), "a" (no dot) and ".a.a" (two dots).      *)

BareDcc == [name |-> "bare", extension |-> <<>>, found |-> TRUE]
DotlessDcc == [name |-> "dotless", extension |-> <<"a">>, found |-> TRUE]
TwoDotDcc == [name |-> "twodot", extension |-> <<".", "a", ".", "a">>, found |-> TRUE]

ConfigDccs == {FoundDcc, BareDcc, DotlessDcc, TwoDotDcc}

CreateInit ==
    /\ workdir \in {[exists |-> TRUE, entries |-> [n \in S |-> FileEntry(EnvBytes)]] :
                       S \in SUBSET {make_filename(<<>>, t, p, FoundDcc) :
                                        t \in TaskNames, p \in ProjectNames}}
    /\ template \in {0, TemplateBytes}
    /\ project \in ProjectNames
    /\ task \in TaskNames
    /\ current_task = FALSE
    /\ files = [some |-> FALSE, list |-> <<>>]
    /\ crashed = FALSE
    /\ last = NoCommand("none", "none")
    /\ CodecIdle
    /\ TreeIdle
    /\ RestIdle

CreateNext ==
    \/ SetCurrentTask
    \/ \E typed \in NewFileNames, dcc \in ConfigDccs : CreateFile(typed, dcc)

SpecCreate == CreateInit /\ [][CreateNext]_vars

(* An extension as Path::extension gives it: without the leading dot. *)
StripDot(e) == IF e # <<>> /\ e[1] = "." THEN Tail(e) ELSE e

(* C23: after a successful create_file, find_workfiles on the work         *)
(* directory returns a File for the created path with version 1, name      *)
(* '{project.name_sanitized}_{task.name}' (then '_{logicalName}' when the  *)
(* logical name is not empty) and the dcc's extension.                     *)
C23_CreatedFileFound ==
    [][(last'.op = "create_file" /\ last'.res = "ok") =>
          LET r == find_workfiles(workdir')
              base == project \o <<"_">> \o task
          IN  /\ r.tag = "ok"
              /\ \E f \in r.files :
                    /\ f.path = last'.dst
                    /\ f.version = 1
                    /\ f.name = IF last'.name = <<>> THEN base
                                ELSE base \o <<"_">> \o last'.name
                    /\ f.extension = StripDot(last'.dcc.extension)]_vars

----------------------------------------------------------------------------
(* Claims about Project::create (checked under SpecProjects) *)

(* The child of the projects directory the last step made. *)
NewChildren == DOMAIN proot'.entries \ DOMAIN proot.entries

InList(list, p) == \E i \in 1..Len(list) : list[i] = p

(* C24: after Project::create succeeds the project directory holds the     *)
(* work, dailies, deliveries and pipeline directories, every extra         *)
(* directory and the descriptor, and find_projects returns a list that     *)
(* holds a Project equal to the created one.                               *)
C24_CreateDiscover ==
    [][(plast'.op = "create_project" /\ plast'.res = "ok") =>
          /\ Cardinality(NewChildren) = 1
          /\ \A n \in NewChildren :
                LET c == proot'.entries[n]
                IN  /\ c.kind = "dir"
                    /\ {work_dir_name, dailies_dir_name, deliveries_dir_name,
                        pipeline_dir_name} \subseteq c.dirs
                    /\ \A i \in DOMAIN extra_dir_names : extra_dir_names[i] \in c.dirs
                    /\ c.desc.tag = "valid"
                    /\ c.desc.project = Project_new(n)
                    /\ \A desc \in BOOLEAN :
                          LET found == find_projects(proot', desc)
                          IN  found.tag = "ok" /\ InList(found.list, c.desc.project)]_vars

(* C25: when Project::create returns an error, at whatever step, the       *)
(* children of the projects directory that were there are as they were,    *)
(* their descriptors included, no child has a valid descriptor that it     *)
(* did not have before, and find_projects returns what it returned         *)
(* before, which is the list the application holds after its rescan: the   *)
(* directory left half made adds no project.                               *)
C25_PartialNotDiscovered ==
    [][(plast'.op = "create_project" /\ plast'.res = "err") =>
          /\ \A n \in DOMAIN proot.entries :
                n \in DOMAIN proot'.entries /\ proot'.entries[n] = proot.entries[n]
          /\ \A n \in NewChildren : proot'.entries[n].desc.tag # "valid"
          /\ \A desc \in BOOLEAN : find_projects(proot', desc) = find_projects(proot, desc)
          /\ plast'.scan = "ok" =>
                \A desc \in BOOLEAN : projects' = find_projects(proot, desc).list]_vars

(* A create has just failed on its third sub-directory, beside a project   *)
(* that was there: the new directory holds two sub-directories and no      *)
(* descriptor, and the list holds the one project.                         *)
C25_Witness ==
    /\ plast = PLast("create_project", "err", "ok")
    /\ Len(projects) = 1
    /\ \E n, m \in DOMAIN proot.entries :
          /\ n # m
          /\ proot.entries[n] = ChildDir(NoDesc, {dailies_dir_name, deliveries_dir_name})
          /\ proot.entries[m].desc = ValidDesc(projects[1])

(* Project::get_path relative to projects_dir: the child name_sanitized. *)
get_path(p) == p.name_sanitized

(* C27: for every Project find_projects returns, the directory get_path    *)
(* derives from the record is the child of the projects directory in       *)
(* which its descriptor was found.                                         *)
C27_PathIsDescriptorDirectory ==
    proot.readable =>
        \A desc \in BOOLEAN :
            LET list == find_projects(proot, desc).list
            IN  \A i \in 1..Len(list) :
                   /\ get_path(list[i]) \in ValidChildren(proot)
                   /\ proot.entries[get_path(list[i])].desc.project = list[i]

(* The positions in list of the projects whose name contains f. *)
MatchingPositions(list, f) ==
    {i \in 1..Len(list) : f = <<>> \/ Contains(list[i].name, f)}

(* shown is, in order, the projects of list whose name contains f. *)
IsFilterOf(shown, list, f) ==
    LET idx == MatchingPositions(list, f)
    IN  /\ Len(shown) = Cardinality(idx)
        /\ \A k \in 1..Len(shown) :
              shown[k] = list[CHOOSE i \in idx : Cardinality({j \in idx : j <= i}) = k]

(* C30: after every refresh_projects and every filter_projects the list    *)
(* shown is, in order, the projects of the full list whose name contains   *)
(* project_filter, the whole list when the filter is empty; a successful   *)
(* refresh_projects empties the filter; a failed one leaves projects,      *)
(* projects_filtered and project_filter as they were.                      *)
C30_FilterInvariant ==
    [][/\ IsFilterOf(projects_filtered', projects', project_filter')
       /\ project_filter' = <<>> => projects_filtered' = projects'
       /\ (plast'.op # "filter_projects" /\ plast'.scan = "ok") => project_filter' = <<>>
       /\ (plast'.op # "filter_projects" /\ plast'.scan = "err") =>
             /\ projects' = projects
             /\ projects_filtered' = projects_filtered
             /\ project_filter' = project_filter]_vars

(* The filter "b" has just been typed over a list of two projects, and the *)
(* list shown holds the second only.                                       *)
C30_Witness ==
    /\ plast.op = "filter_projects"
    /\ project_filter = <<"b">>
    /\ Len(projects) = 2
    /\ projects_filtered = <<projects[2]>>
    /\ projects[1].name = <<"a">>

----------------------------------------------------------------------------
(* Claims about create_task (checked under SpecTree) *)

(* Every work sub-directory of the project is a directory inside p. *)
HasWorkSubDirs(dk, p) ==
    \A i \in DOMAIN work_sub_dirs : IsDir(dk, p \o <<work_sub_dirs[i]>>)

(* C26: create_task fails and changes nothing when an entry of the name is *)
(* already under the parent; when it succeeds the new directory holds the  *)
(* marker and every work sub-directory and from_path on the parent has it  *)
(* as a task leaf; and every node the tree just built has as a task holds  *)
(* all of its work sub-directories.                                        *)
C26_TaskAllOrNothing ==
    /\ \A pp \in Dirs, typed \in TypedNames, fault \in TaskFaults :
          LET name == sanitize_string(typed)
              tp == pp \o <<name>>
              c == create_task(disk, pp, name, fault)
          IN  /\ tp \in DOMAIN disk => c = TreeResult("err", disk)
              /\ c.res = "ok" =>
                    /\ HasMarker(c.disk, tp)
                    /\ HasWorkSubDirs(c.disk, tp)
                    /\ LET t == TaskTreeNode_from_path(c.disk, pp, enum_desc)
                       IN  (t.tag = "ok" /\ ~t.node.is_task) =>
                              \E i \in 1..Len(t.node.children) :
                                  /\ t.node.children[i].path = tp
                                  /\ TaskLeaf(t.node.children[i])
    /\ (tree.some /\ tlast.scan = "ok") =>
          \A n \in Nodes(tree.node) : n.is_task => HasWorkSubDirs(disk, n.path)

----------------------------------------------------------------------------
(* Claims about the selection (checked under SpecApp) *)

(* C28: whenever a task is chosen, a project is open and the task lies in  *)
(* the work tree of that project, so that create_file never joins the      *)
(* sanitized name of one project with a task directory of another. The    *)
(* process is running: a panic ends it.                                    *)
C28_SelectionConsistent ==
    (~crashed /\ current_task) =>
        current_project /\ task_project = opened.name_sanitized

----------------------------------------------------------------------------
(* app.rs: the three creation dialogs. A project is open or not; when one  *)
(* is, its tree holds a folder "a" and a task "t". Each node that is not   *)
(* a task carries a "+ Folder" and a "+ Task" button.                      *)

DialogFlags ==
    [show_create_project |-> show_create_project,
     show_create_task |-> show_create_task,
     show_create_folder |-> show_create_folder]

(* Rclamp::open_create_folder *)
open_create_folder(a) ==
    [a EXCEPT !.show_create_folder = TRUE,
              !.show_create_project = FALSE,
              !.show_create_task = FALSE]

(* open_create_task without the line that hides the folder dialog. *)
open_create_task_keeping_folder(a) ==
    [a EXCEPT !.show_create_project = FALSE,
              !.show_create_task = TRUE]

(* Rclamp::open_create_task *)
open_create_task(a) ==
    [a EXCEPT !.show_create_folder = FALSE,
              !.show_create_project = FALSE,
              !.show_create_task = TRUE]

(* Rclamp::open_or_close_create_project *)
open_or_close_create_project(a) ==
    [a EXCEPT !.show_create_project = ~a.show_create_project,
              !.show_create_folder = FALSE,
              !.show_create_task = FALSE]

DialogAssign(a) ==
    /\ show_create_project' = a.show_create_project
    /\ show_create_task' = a.show_create_task
    /\ show_create_folder' = a.show_create_folder

DialogTree ==
    Node(<<>>, FALSE, <<Node(<<<<"a">>>>, FALSE, <<>>), Node(<<<<"t">>>>, TRUE, <<>>)>>)

DialogPaths == {<<>>, <<<<"a">>>>, <<<<"t">>>>}

DialogNames == {<<>>, <<"a">>, <<"b">>}

DialogInit ==
    /\ DialogIdle
    /\ tree \in {NoTree, SomeTree(DialogTree)}
    /\ current_project = tree.some
    /\ disk = <<>>
    /\ enum_desc = FALSE
    /\ tlast = [op |-> "none", res |-> "none", scan |-> "none"]
    /\ CodecIdle /\ FilesIdle /\ SanIdle /\ ProjIdle /\ RaceIdle /\ AppIdle
    /\ SelIdle /\ ClientIdle

DialogFrame ==
    UNCHANGED <<codecVars, fileVars, treeVars, sanVars, projVars, raceVars, appVars,
                selVars, clientVars>>

(* The button of a node that is shown and is not a task. *)
HasButtons(q) ==
    /\ tree.some
    /\ \E n \in Nodes(tree.node) : n.path = q /\ ~n.is_task

(* render_top_bar: "Create project" or "Close". *)
ClickCreateProject ==
    /\ new_project_name' = <<>>
    /\ message' = FALSE
    /\ DialogAssign(open_or_close_create_project(DialogFlags))
    /\ UNCHANGED <<new_task_name, new_folder_name, new_task_parent, new_folder_parent>>
    /\ DialogFrame

(* render_task_tree, tree_child: "+ Folder" on the node at q. *)
ClickNewFolder(q) ==
    /\ HasButtons(q)
    /\ message' = FALSE
    /\ new_folder_name' = <<>>
    /\ new_folder_parent' = q
    /\ DialogAssign(open_create_folder(DialogFlags))
    /\ UNCHANGED <<new_project_name, new_task_name, new_task_parent>>
    /\ DialogFrame

(* render_task_tree, tree_child: "+ Task" on the node at q. *)
ClickNewTask(q) ==
    /\ HasButtons(q)
    /\ message' = FALSE
    /\ new_task_name' = <<>>
    /\ new_task_parent' = q
    /\ DialogAssign(open_create_task(DialogFlags))
    /\ UNCHANGED <<new_project_name, new_folder_name, new_folder_parent>>
    /\ DialogFrame

(* create_task_dialog: "Cancel". *)
CancelTask ==
    /\ show_create_task
    /\ show_create_task' = FALSE
    /\ message' = FALSE
    /\ UNCHANGED <<show_create_project, show_create_folder, new_project_name,
                   new_task_name, new_folder_name, new_task_parent, new_folder_parent>>
    /\ DialogFrame

(* create_folder_dialog: "Cancel". *)
CancelFolder ==
    /\ show_create_folder
    /\ show_create_folder' = FALSE
    /\ message' = FALSE
    /\ UNCHANGED <<show_create_project, show_create_task, new_project_name,
                   new_task_name, new_folder_name, new_task_parent, new_folder_parent>>
    /\ DialogFrame

(* The text field of the dialog shown is edited. *)
TypeName(n) ==
    /\ show_create_project \/ show_create_task \/ show_create_folder
    /\ new_project_name' = IF show_create_project THEN n ELSE new_project_name
    /\ new_task_name' = IF show_create_task THEN n ELSE new_task_name
    /\ new_folder_name' = IF show_create_folder THEN n ELSE new_folder_name
    /\ UNCHANGED <<show_create_project, show_create_task, show_create_folder,
                   new_task_parent, new_folder_parent, message>>
    /\ DialogFrame

(* A command leaves a message in the top bar. *)
Report ==
    /\ ~message
    /\ message' = TRUE
    /\ UNCHANGED <<show_create_project, show_create_task, show_create_folder,
                   new_project_name, new_task_name, new_folder_name,
                   new_task_parent, new_folder_parent>>
    /\ DialogFrame

DialogNext ==
    \/ ClickCreateProject
    \/ \E q \in DialogPaths : ClickNewFolder(q)
    \/ \E q \in DialogPaths : ClickNewTask(q)
    \/ CancelTask
    \/ CancelFolder
    \/ \E n \in DialogNames : TypeName(n)
    \/ Report

SpecDialogs == DialogInit /\ [][DialogNext]_vars

(* C29: at most one of the three creation dialogs is shown. *)
C29_DialogExclusive ==
    /\ ~(show_create_project /\ show_create_task)
    /\ ~(show_create_project /\ show_create_folder)
    /\ ~(show_create_task /\ show_create_folder)

(* The task dialog was opened over a folder dialog in which a name had     *)
(* been typed.                                                             *)
C29_Witness ==
    show_create_task /\ ~show_create_folder /\ new_folder_name # <<>>

----------------------------------------------------------------------------
(* clients.rs: the list of clients kept in one file. clients_file.state is *)
(* "list" when the file parses as a list of clients, "bad" when it is      *)
(* there and does not, "missing" when it is not there.                     *)

MaxClients == 3

Client(n, s) == [name |-> n, short_name |-> s]

ClientsFile(st, l) == [state |-> st, list |-> l]

(* Client::get_clients *)
get_clients(f) ==
    IF f.state = "list" THEN [tag |-> "ok", list |-> f.list]
    ELSE [tag |-> "err", list |-> <<>>]

(* Client::write_clients_to_file. The open can be refused, which leaves    *)
(* the file as it was; the write can stop after the file was truncated,    *)
(* and leave nothing that parses or the list without its last entry.       *)
write_clients_to_file(clients, f, fault) ==
    IF fault = "open" THEN [tag |-> "err", file |-> f]
    ELSE IF fault = "truncated" THEN [tag |-> "err", file |-> ClientsFile("bad", <<>>)]
    ELSE IF fault = "partial" /\ clients # <<>>
    THEN [tag |-> "err",
          file |-> ClientsFile("list", SubSeq(clients, 1, Len(clients) - 1))]
    ELSE [tag |-> "ok", file |-> ClientsFile("list", clients)]

(* check_for_duplicate_clients comparing the names only. *)
check_for_duplicate_clients_by_name(client_list, new_client) ==
    \E i \in 1..Len(client_list) : client_list[i].name = new_client.name

(* Client::check_for_duplicate_clients *)
check_for_duplicate_clients(client_list, new_client) ==
    \E i \in 1..Len(client_list) :
        \/ client_list[i].name = new_client.name
        \/ client_list[i].short_name = new_client.short_name

(* Client::add_client *)
add_client(name, short_name, f, fault) ==
    LET got == get_clients(f)
        new_client == Client(name, sanitize_string(short_name))
    IN  IF got.tag = "err" THEN [res |-> "err", why |-> "read", file |-> f]
        ELSE IF check_for_duplicate_clients(got.list, new_client)
        THEN [res |-> "err", why |-> "duplicate", file |-> f]
        ELSE LET w == write_clients_to_file(Append(got.list, new_client), f, fault)
             IN  [res |-> w.tag, why |-> IF w.tag = "ok" THEN "none" ELSE "write",
                  file |-> w.file]

(* Client::remove_client *)
remove_client(client, f, fault) ==
    LET got == get_clients(f)
        Other(c) == c.name # client.name
    IN  IF got.tag = "err" THEN [res |-> "err", why |-> "read", file |-> f]
        ELSE LET w == write_clients_to_file(SelectSeq(got.list, Other), f, fault)
             IN  [res |-> w.tag, why |-> IF w.tag = "ok" THEN "none" ELSE "write",
                  file |-> w.file]

ClientNames == {<<"A">>, <<"a">>, <<"b">>}
TypedShortNames == {<<"A">>, <<"a">>, <<"b">>, <<" ">>}
WriteFaults == {"none", "open", "truncated", "partial"}

(* The names are pairwise distinct and so are the short names. *)
PairwiseDistinct(l) ==
    \A i, j \in 1..Len(l) :
        i # j => l[i].name # l[j].name /\ l[i].short_name # l[j].short_name

CLast(o, r, y, n, s) == [op |-> o, res |-> r, why |-> y, name |-> n, short_name |-> s]

ClientInit ==
    /\ clients_file \in
          {ClientsFile("missing", <<>>), ClientsFile("list", <<>>)}
          \cup {ClientsFile("list", <<Client(n, s)>>) :
                    n \in ClientNames, s \in TypedShortNames}
    /\ clast = CLast("none", "none", "none", <<>>, <<>>)
    /\ CodecIdle /\ FilesIdle /\ TreeIdle /\ SanIdle /\ ProjIdle /\ RaceIdle /\ AppIdle
    /\ SelIdle /\ DialogIdle

ClientFrame ==
    UNCHANGED <<codecVars, fileVars, treeVars, sanVars, projVars, raceVars, appVars,
                selVars, dialogVars>>

AddClient(name, short_name, fault) ==
    /\ Len(clients_file.list) < MaxClients
    /\ LET r == add_client(name, short_name, clients_file, fault)
       IN  /\ clients_file' = r.file
           /\ clast' = CLast("add_client", r.res, r.why, name, short_name)
    /\ ClientFrame

RemoveClient(name, fault) ==
    /\ LET r == remove_client(Client(name, sanitize_string(name)), clients_file, fault)
       IN  /\ clients_file' = r.file
           /\ clast' = CLast("remove_client", r.res, r.why, name, <<>>)
    /\ ClientFrame

ClientNext ==
    \/ \E name \in ClientNames, short_name \in TypedShortNames, fault \in WriteFaults :
          AddClient(name, short_name, fault)
    \/ \E name \in ClientNames, fault \in WriteFaults : RemoveClient(name, fault)

SpecClients == ClientInit /\ [][ClientNext]_vars

(* C21: add_client returns an error and leaves the clients file as it was  *)
(* when a client of the list has the name of the new one or its sanitized  *)
(* short name; and after every add_client and remove_client the names of   *)
(* the stored list are pairwise distinct and so are its short names.       *)
C21_ClientsUnique ==
    [][/\ (/\ clast'.op = "add_client"
           /\ clients_file.state = "list"
           /\ \E i \in 1..Len(clients_file.list) :
                 \/ clients_file.list[i].name = clast'.name
                 \/ clients_file.list[i].short_name = sanitize_string(clast'.short_name))
          => (clast'.res = "err" /\ clients_file' = clients_file)
       /\ PairwiseDistinct(clients_file'.list)]_vars

(* A client was refused for its short name alone, the list holding two     *)
(* clients.                                                                *)
C21_Witness ==
    /\ clast.op = "add_client" /\ clast.why = "duplicate"
    /\ Len(clients_file.list) = 2
    /\ \A i \in 1..Len(clients_file.list) : clients_file.list[i].name # clast.name

====
